---- MODULE Spec2Model ----
(***************************************************************************)
(* Library synchronisation of the Google Photos client:                    *)
(*   - the sync driver (GetLibraryState / GetLibraryPageInit /             *)
(*     GetLibraryPage -> doLibraryRequest),                                *)
(*   - the reconciliation of one response page (parseFromProto),           *)
(*   - the schema-less wire decoder (parseProtobufMessage / ToRawJSON).    *)
(*                                                                         *)
(* Go strings are TLA+ strings, "" is the empty string.  An optional       *)
(* sub-message (a Go pointer that may be nil) is a sequence of length 0    *)
(* (nil) or 1.  Go slices are sequences, Go maps are functions on a finite *)
(* domain.  Fields of MediaItem / AlbumItem that are copied verbatim from  *)
(* the wire and take part in no linking decision (sizes, timestamps, URLs, *)
(* flags, title, cover) are left out of the records.                       *)
(***************************************************************************)
EXTENDS Integers, Sequences, FiniteSets, TLC

VARIABLES
    pc,           \* position of the sync call: "idle", "request" (waiting for the
                  \* transport) or "decode" (DoRequest has returned the body)
    call,         \* the entry point called and its arguments, until the transport
                  \* answers: <<>> is none
    requestBody,  \* the request built by the entry point, while it is in flight
    doRequests,   \* DoRequest invocations made by the current (or last) call
    cmd,          \* the running library command: its flags and the tokens of the
                  \* response the command printed before; <<>> is no command
    bodyBytes,    \* the body DoRequest returned, until it is decoded: <<>> is none
    resp,         \* *LibraryStateResponse returned by the last call: <<>> is nil
    err,          \* error returned by the last call: "" is nil
    rawBytes,     \* the buffer handed to the generic decoder (RawBytes of a response)
    writes,       \* the (field number, kind, value) writes rawBytes was built from
    rawJSON,      \* result of the last ToRawJSON on rawBytes: <<>> is not called yet
    calls,        \* the sync calls goroutines make concurrently on one client:
                  \* per goroutine, the locals of its doLibraryRequest
    uploadMu,     \* GooglePhotosAPI.uploadMu: 0 is unlocked, else the batch holding it
    upload,       \* per Upload call, the locals of its batch goroutine, its
                  \* context and its events channel
    worker,       \* per Upload call, the position of each worker goroutine
    running,      \* UploadManager.running of the callback-based manager
    cancel,       \* UploadManager.cancel: 0 is nil, else the channel made by that call
    closed,       \* the cancel channels that have been closed
    wg,           \* the counter of UploadManager.wg
    batch,        \* per call of the callback-based Upload, its locals, its
                  \* channels and the events its callback has received
    authMu,       \* Api.authMu: 0 is unlocked, else the caller holding it
    authTokenCache, \* Api.authTokenCache: the Expiry and Auth entries
    now,          \* time.Now().Unix()
    bearer        \* per BearerToken call, its position and what it returned

vars == <<pc, call, requestBody, doRequests, cmd, bodyBytes, resp, err,
          rawBytes, writes, rawJSON, calls, uploadMu, upload, worker,
          running, cancel, closed, wg, batch,
          authMu, authTokenCache, now, bearer>>
syncVars == <<pc, call, requestBody, doRequests, cmd, bodyBytes, resp, err>>
codecVars == <<rawBytes, writes, rawJSON>>
goVars == <<calls>>
uploadVars == <<uploadMu, upload, worker>>
managerVars == <<running, cancel, closed, wg, batch>>
authVars == <<authMu, authTokenCache, now, bearer>>

(***************************************************************************)
(* Bounds                                                                  *)
(***************************************************************************)
MaxRecords == 3   \* records (media + albums + deletions) in one response page
MaxAppends == 4   \* append operations used to build one buffer
MaxCallers == 2   \* goroutines calling the sync entry points on one client
MaxBatches == 2   \* calls of Upload on one client
MaxFiles == 2     \* files that pass the filter in one call of Upload
MaxLinked == 4    \* records of a page whose media records link to one another
MaxUploads == 2   \* calls of the callback-based Upload on one client
MaxTime == 2      \* seconds the clock moves on

(***************************************************************************)
(* Small helpers for Go maps and slices                                    *)
(***************************************************************************)
EmptyMap == [k \in {} |-> <<>>]

\* m[k] = v, overwriting an existing entry
MapPut(m, k, v) == [x \in (DOMAIN m) \cup {k} |-> IF x = k THEN v ELSE m[x]]

\* m[k] for a map of slices: the nil slice when k is missing
MapGetSlice(m, k) == IF k \in DOMAIN m THEN m[k] ELSE <<>>

Min(a, b) == IF a < b THEN a ELSE b
Max(a, b) == IF a > b THEN a ELSE b

Range(s) == {s[i] : i \in DOMAIN s}

\* all sequences over S of length exactly n
SeqsOfLen(S, n) == [1..n -> S]

(***************************************************************************)
(* Wire records of a response page (pb.LibraryStateData)                   *)
(***************************************************************************)
NonCanonicalProperty == 27
SingleMediaDeleted == 1

\* pb.MediaMetadata with the fields parseMediaItemFromProtoEx reads for linking
Metadata(fileName, collection, dedup, properties) ==
    <<[file_name |-> fileName, collection |-> collection, dedup |-> dedup,
       properties |-> properties]>>

\* pb.MediaItemData
MediaItemData(mediaKey, metadata, keyInfo) ==
    [media_key |-> mediaKey, metadata |-> metadata, key_info |-> keyInfo]

MediaRecords == {
    \* canonical, dedup H1, no album, an unrelated property
    MediaItemData("M1", Metadata("a.jpg", <<>>, <<"H1">>, <<5>>), <<>>),
    \* canonical, dedup H1 again, created inside album A1
    MediaItemData("M2", Metadata("b.jpg", <<"A1">>, <<"H1">>, <<>>), <<>>),
    \* non-canonical copy of H1 in album A1
    MediaItemData("M3", Metadata("c.jpg", <<"A1">>, <<"H1">>, <<5, 27>>), <<>>),
    \* non-canonical copy of H2 in album A2
    MediaItemData("M4", Metadata("d.jpg", <<"A2">>, <<"H2">>, <<27>>), <<>>),
    \* non-canonical record in album A1 without a dedup sub-message
    MediaItemData("M5", Metadata("e.jpg", <<"A1">>, <<>>, <<27>>), <<>>),
    \* neither key nor file name: unparseable
    MediaItemData("", Metadata("", <<"A1">>, <<"H1">>, <<27>>), <<>>),
    \* canonical, dedup H2, identified by its file name only
    MediaItemData("", Metadata("g.jpg", <<>>, <<"H2">>, <<>>), <<"">>),
    \* no metadata, key carried by key_info
    MediaItemData("", <<>>, <<"K8">>),
    \* non-canonical copy of H1 outside any album
    MediaItemData("M9", Metadata("i.jpg", <<>>, <<"H1">>, <<27>>), <<>>)
}

\* the record of MediaRecords with this media_key
MediaRecord(key) == CHOOSE rec \in MediaRecords : rec.media_key = key

\* pb.AlbumData
AlbumRecords == { [album_key |-> k] : k \in {"A1", "A2", ""} }

\* pb.DeletionData: info is nil or DeletionInfo{deletion_type, media}
DeletionData(info) == [info |-> info]
DeletionInfo(type, media) == <<[deletion_type |-> type, media |-> media]>>

DeletionRecords == {
    DeletionData(DeletionInfo(1, <<[media_key |-> "D1"]>>)),
    DeletionData(DeletionInfo(1, <<>>)),
    DeletionData(DeletionInfo(4, <<[media_key |-> "D4"]>>)),
    DeletionData(DeletionInfo(6, <<>>)),
    DeletionData(<<>>)
}

Tokens == {"", "T1"}

\* pb.LibraryStateData
LibraryStateData(stateToken, nextPageToken, mediaItems, albums, deletions) ==
    [state_token |-> stateToken, next_page_token |-> nextPageToken,
     media_items |-> mediaItems, albums |-> albums, deletions |-> deletions]

\* What the transport hands back: bytes that proto.Unmarshal rejects
\* (wellformed = FALSE), or a well-formed pb.LibraryStateResponse whose Data
\* is nil (<<>>) or a page.
ResponseBody(wellformed, data) == [wellformed |-> wellformed, data |-> data]

(***************************************************************************)
(* Reconciliation engine                                                   *)
(***************************************************************************)

\* Mutant: only the first property of the list is looked at
IsCanonical_FirstPropertyOnly(properties) ==
    ~ (properties # <<>> /\ properties[1] = NonCanonicalProperty)

\* The property loop of parseMediaItemFromProtoEx: property 27 marks a copy
IsCanonical(properties) ==
    ~ \E i \in DOMAIN properties : properties[i] = NonCanonicalProperty

\* Mutant: the final "no key and no file name" check is missing
parseMediaItemFromProtoEx_KeepsEmpty(pbItem) ==
    LET hasMeta == pbItem.metadata # <<>>
        m == pbItem.metadata[1]
        mediaKey == IF pbItem.key_info # <<>> /\ pbItem.media_key = ""
                    THEN pbItem.key_info[1] ELSE pbItem.media_key
    IN  [ok |-> TRUE,
         item |-> [MediaKey |-> mediaKey,
                   FileName |-> IF hasMeta THEN m.file_name ELSE "",
                   DedupKey |-> IF hasMeta /\ m.dedup # <<>> THEN m.dedup[1] ELSE "",
                   AlbumID |-> "", Copies |-> <<>>],
         isCanonical |-> IF hasMeta THEN IsCanonical(m.properties) ELSE TRUE,
         albumID |-> IF hasMeta /\ m.collection # <<>> THEN m.collection[1] ELSE ""]

\* parseMediaItemFromProtoEx: (item, isCanonical, albumID); ok = FALSE is the
\* nil item.  Copies and AlbumID of the item are filled in by the third pass.
parseMediaItemFromProtoEx(pbItem) ==
    LET hasMeta == pbItem.metadata # <<>>
        m == pbItem.metadata[1]
        fileName == IF hasMeta THEN m.file_name ELSE ""
        albumID == IF hasMeta /\ m.collection # <<>> THEN m.collection[1] ELSE ""
        dedupKey == IF hasMeta /\ m.dedup # <<>> THEN m.dedup[1] ELSE ""
        isCanonical == IF hasMeta THEN IsCanonical(m.properties) ELSE TRUE
        mediaKey == IF pbItem.key_info # <<>> /\ pbItem.media_key = ""
                    THEN pbItem.key_info[1] ELSE pbItem.media_key
        item == [MediaKey |-> mediaKey, FileName |-> fileName, DedupKey |-> dedupKey,
                 AlbumID |-> "", Copies |-> <<>>]
    IN  IF mediaKey = "" /\ fileName = ""
        THEN [ok |-> FALSE, item |-> item, isCanonical |-> FALSE, albumID |-> ""]
        ELSE [ok |-> TRUE, item |-> item, isCanonical |-> isCanonical, albumID |-> albumID]

\* Mutant: a dedup_key that is already indexed keeps its entry
FirstPassStep_KeepsFirst(acc, pbItem) ==
    LET r == parseMediaItemFromProtoEx(pbItem)
        idx == Len(acc.allItems) + 1
    IN  IF ~ r.ok THEN acc
        ELSE [allItems |-> Append(acc.allItems,
                  [item |-> r.item, isCanonical |-> r.isCanonical, albumID |-> r.albumID]),
              dedupToCanonicalIdx |->
                  IF /\ r.isCanonical /\ r.item.DedupKey # ""
                     /\ r.item.DedupKey \notin DOMAIN acc.dedupToCanonicalIdx
                  THEN MapPut(acc.dedupToCanonicalIdx, r.item.DedupKey, idx)
                  ELSE acc.dedupToCanonicalIdx]

\* Mutant: the index also records non-canonical items
FirstPassStep_IndexesCopies(acc, pbItem) ==
    LET r == parseMediaItemFromProtoEx(pbItem)
        idx == Len(acc.allItems) + 1
    IN  IF ~ r.ok THEN acc
        ELSE [allItems |-> Append(acc.allItems,
                  [item |-> r.item, isCanonical |-> r.isCanonical, albumID |-> r.albumID]),
              dedupToCanonicalIdx |->
                  IF r.item.DedupKey # ""
                  THEN MapPut(acc.dedupToCanonicalIdx, r.item.DedupKey, idx)
                  ELSE acc.dedupToCanonicalIdx]

\* One iteration of the first pass: append the parsed item and index it
FirstPassStep(acc, pbItem) ==
    LET r == parseMediaItemFromProtoEx(pbItem)
        idx == Len(acc.allItems) + 1
    IN  IF ~ r.ok THEN acc
        ELSE [allItems |-> Append(acc.allItems,
                  [item |-> r.item, isCanonical |-> r.isCanonical, albumID |-> r.albumID]),
              dedupToCanonicalIdx |->
                  IF r.isCanonical /\ r.item.DedupKey # ""
                  THEN MapPut(acc.dedupToCanonicalIdx, r.item.DedupKey, idx)
                  ELSE acc.dedupToCanonicalIdx]

RECURSIVE FirstPassLoop(_, _, _)
FirstPassLoop(mediaItems, i, acc) ==
    IF i > Len(mediaItems) THEN acc
    ELSE FirstPassLoop(mediaItems, i + 1, FirstPassStep(acc, mediaItems[i]))

\* First pass: allItems and the dedup_key -> canonical index map
FirstPass(mediaItems) ==
    FirstPassLoop(mediaItems, 1, [allItems |-> <<>>, dedupToCanonicalIdx |-> EmptyMap])

\* MediaItemCopy of a non-canonical parsed item
MediaItemCopy(p) == [MediaKey |-> p.item.MediaKey, AlbumID |-> p.albumID]

\* Mutant: the canonical item is looked up as in a single pass, among the
\* items that precede the copy
AlbumMediaItem_LooksBackOnly(p, allItems, dedupToCanonicalIdx) ==
    LET hasCanonical ==
            /\ p.item.DedupKey \in DOMAIN dedupToCanonicalIdx
            /\ \E i \in DOMAIN allItems :
                  allItems[i] = p /\ dedupToCanonicalIdx[p.item.DedupKey] < i
        originalKey == IF hasCanonical
                       THEN allItems[dedupToCanonicalIdx[p.item.DedupKey]].item.MediaKey
                       ELSE ""
    IN  [MediaKey |-> p.item.MediaKey, OriginalMediaKey |-> originalKey,
         FileName |-> p.item.FileName, DedupKey |-> p.item.DedupKey]

\* AlbumMediaItem of a non-canonical parsed item that sits in an album
AlbumMediaItem(p, allItems, dedupToCanonicalIdx) ==
    LET hasCanonical == p.item.DedupKey \in DOMAIN dedupToCanonicalIdx
        originalKey == IF hasCanonical
                       THEN allItems[dedupToCanonicalIdx[p.item.DedupKey]].item.MediaKey
                       ELSE ""
    IN  [MediaKey |-> p.item.MediaKey, OriginalMediaKey |-> originalKey,
         FileName |-> p.item.FileName, DedupKey |-> p.item.DedupKey]

\* Mutant: a copy is attached to its album only when its canonical item is known
SecondPassStep_DropsUnresolved(acc, p, allItems, dedupToCanonicalIdx) ==
    IF ~ p.isCanonical /\ p.item.DedupKey # ""
    THEN [dedupToCopies |->
              MapPut(acc.dedupToCopies, p.item.DedupKey,
                     Append(MapGetSlice(acc.dedupToCopies, p.item.DedupKey), MediaItemCopy(p))),
          collectionItems |->
              IF p.albumID # "" /\ p.item.DedupKey \in DOMAIN dedupToCanonicalIdx
              THEN MapPut(acc.collectionItems, p.albumID,
                          Append(MapGetSlice(acc.collectionItems, p.albumID),
                                 AlbumMediaItem(p, allItems, dedupToCanonicalIdx)))
              ELSE acc.collectionItems]
    ELSE acc

\* Mutant: a copy is put at the head of the list of its dedup_key
SecondPassStep_PrependsCopy(acc, p, allItems, dedupToCanonicalIdx) ==
    IF ~ p.isCanonical /\ p.item.DedupKey # ""
    THEN [dedupToCopies |->
              MapPut(acc.dedupToCopies, p.item.DedupKey,
                     <<MediaItemCopy(p)>> \o MapGetSlice(acc.dedupToCopies, p.item.DedupKey)),
          collectionItems |->
              IF p.albumID # ""
              THEN MapPut(acc.collectionItems, p.albumID,
                          Append(MapGetSlice(acc.collectionItems, p.albumID),
                                 AlbumMediaItem(p, allItems, dedupToCanonicalIdx)))
              ELSE acc.collectionItems]
    ELSE acc

\* One iteration of the second pass
SecondPassStep(acc, p, allItems, dedupToCanonicalIdx) ==
    IF ~ p.isCanonical /\ p.item.DedupKey # ""
    THEN [dedupToCopies |->
              MapPut(acc.dedupToCopies, p.item.DedupKey,
                     Append(MapGetSlice(acc.dedupToCopies, p.item.DedupKey), MediaItemCopy(p))),
          collectionItems |->
              IF p.albumID # ""
              THEN MapPut(acc.collectionItems, p.albumID,
                          Append(MapGetSlice(acc.collectionItems, p.albumID),
                                 AlbumMediaItem(p, allItems, dedupToCanonicalIdx)))
              ELSE acc.collectionItems]
    ELSE acc

RECURSIVE SecondPassLoop(_, _, _, _)
SecondPassLoop(allItems, dedupToCanonicalIdx, i, acc) ==
    IF i > Len(allItems) THEN acc
    ELSE SecondPassLoop(allItems, dedupToCanonicalIdx, i + 1,
                        SecondPassStep(acc, allItems[i], allItems, dedupToCanonicalIdx))

\* Second pass: the copies map and the album members map
SecondPass(allItems, dedupToCanonicalIdx) ==
    SecondPassLoop(allItems, dedupToCanonicalIdx, 1,
                   [dedupToCopies |-> EmptyMap, collectionItems |-> EmptyMap])

\* Mutant: the third pass emits every parsed item, canonical or not
ThirdPassStep_EmitsCopies(p, dedupToCopies) ==
    <<[p.item EXCEPT !.Copies = MapGetSlice(dedupToCopies, p.item.DedupKey),
                     !.AlbumID = p.albumID]>>

\* One iteration of the third pass: the MediaItems the parsed item adds
ThirdPassStep(p, dedupToCopies) ==
    IF p.isCanonical
    THEN <<[p.item EXCEPT !.Copies = MapGetSlice(dedupToCopies, p.item.DedupKey),
                          !.AlbumID = p.albumID]>>
    ELSE <<>>

RECURSIVE ThirdPassLoop(_, _, _)
ThirdPassLoop(allItems, dedupToCopies, i) ==
    IF i > Len(allItems) THEN <<>>
    ELSE ThirdPassStep(allItems[i], dedupToCopies)
         \o ThirdPassLoop(allItems, dedupToCopies, i + 1)

\* Mutant: the third pass puts each item in front of those emitted before
ThirdPass_NewestFirst(allItems, dedupToCopies) ==
    LET out == ThirdPassLoop(allItems, dedupToCopies, 1)
    IN  [i \in DOMAIN out |-> out[Len(out) + 1 - i]]

\* Third pass: r.MediaItems
ThirdPass(allItems, dedupToCopies) == ThirdPassLoop(allItems, dedupToCopies, 1)

\* Mutant: item_count is left at the value the wire reports (always zero)
parseAlbumItemFromProto_WireCount(pbAlbum, collectionItems) ==
    IF pbAlbum.album_key = "" THEN <<>>
    ELSE <<[AlbumKey |-> pbAlbum.album_key,
            ItemCount |-> 0,
            MediaItems |-> MapGetSlice(collectionItems, pbAlbum.album_key)]>>

\* Mutant: the album takes the members collected for every album
parseAlbumItemFromProto_AllMembers(pbAlbum, collectionItems) ==
    IF pbAlbum.album_key = "" THEN <<>>
    ELSE LET ok == pbAlbum.album_key \in DOMAIN collectionItems
             items == IF ok
                      THEN MapGetSlice(collectionItems, "A1") \o MapGetSlice(collectionItems, "A2")
                      ELSE <<>>
         IN  <<[AlbumKey |-> pbAlbum.album_key,
                ItemCount |-> IF ok THEN Len(items) ELSE 0,
                MediaItems |-> items]>>

\* parseAlbumItemFromProto: the AlbumItems the album record adds (none for nil)
parseAlbumItemFromProto(pbAlbum, collectionItems) ==
    IF pbAlbum.album_key = "" THEN <<>>
    ELSE LET ok == pbAlbum.album_key \in DOMAIN collectionItems
             items == IF ok THEN collectionItems[pbAlbum.album_key] ELSE <<>>
         IN  <<[AlbumKey |-> pbAlbum.album_key,
                ItemCount |-> IF ok THEN Len(items) ELSE 0,
                MediaItems |-> items]>>

RECURSIVE ParseAlbums(_, _, _)
ParseAlbums(albums, collectionItems, i) ==
    IF i > Len(albums) THEN <<>>
    ELSE parseAlbumItemFromProto(albums[i], collectionItems)
         \o ParseAlbums(albums, collectionItems, i + 1)

\* Mutant: the deletion type is not looked at
DeletedMediaKey_AnyType(pbDeletion) ==
    IF /\ pbDeletion.info # <<>>
       /\ pbDeletion.info[1].media # <<>>
    THEN <<pbDeletion.info[1].media[1].media_key>>
    ELSE <<>>

\* The deletion loop body: the keys one deletion record adds
DeletedMediaKey(pbDeletion) ==
    IF /\ pbDeletion.info # <<>>
       /\ pbDeletion.info[1].deletion_type = SingleMediaDeleted
       /\ pbDeletion.info[1].media # <<>>
    THEN <<pbDeletion.info[1].media[1].media_key>>
    ELSE <<>>

RECURSIVE ParseDeletions(_, _)
ParseDeletions(deletions, i) ==
    IF i > Len(deletions) THEN <<>>
    ELSE DeletedMediaKey(deletions[i]) \o ParseDeletions(deletions, i + 1)

\* LibraryStateResponse.parseFromProto applied to resp = {RawBytes: bodyBytes}
parseFromProto(body, data) ==
    LET first == FirstPass(data.media_items)
        second == SecondPass(first.allItems, first.dedupToCanonicalIdx)
    IN  [RawBytes |-> body,
         StateToken |-> data.state_token,
         NextPageToken |-> data.next_page_token,
         MediaItems |-> ThirdPass(first.allItems, second.dedupToCopies),
         Albums |-> ParseAlbums(data.albums, second.collectionItems, 1),
         DeletedMediaKeys |-> ParseDeletions(data.deletions, 1)]

\* &LibraryStateResponse{RawBytes: bodyBytes}
EmptyResponse(body) ==
    [RawBytes |-> body, StateToken |-> "", NextPageToken |-> "",
     MediaItems |-> <<>>, Albums |-> <<>>, DeletedMediaKeys |-> <<>>]

(***************************************************************************)
(* Sync protocol driver                                                    *)
(***************************************************************************)

\* One append of an encode helper: the field number, the kind of value and
\* the value (an integer, the bytes of a string, the writes of a message)
Write(num, kind, value) == [num |-> num, kind |-> kind, value |-> value]

IntWrite(num, v) == Write(num, "int", v)                  \* appendIntField
StringWrite(num, bytes) == Write(num, "string", bytes)    \* appendStringField
MessageWrite(num, ws) == Write(num, "message", ws)        \* appendMessage
EmptyMessageWrite(num) == Write(num, "message", <<>>)     \* appendEmptyMessage

\* the bytes of the token strings
TokenBytes(token) == IF token = "" THEN <<>> ELSE <<84, 49>>

(***************************************************************************)
(* Request builder.  A request is the tree of writes that builds it; the   *)
(* fixed sub-blocks are the writes of the buildField functions, in order.  *)
(***************************************************************************)
buildField1_1_1 ==
    <<
        EmptyMessageWrite(1), EmptyMessageWrite(3), EmptyMessageWrite(4),
        MessageWrite(5, <<
            EmptyMessageWrite(1), EmptyMessageWrite(2), EmptyMessageWrite(3),
            EmptyMessageWrite(4), EmptyMessageWrite(5), EmptyMessageWrite(7) >>),
        EmptyMessageWrite(6),
        MessageWrite(7, <<
            EmptyMessageWrite(2) >>),
        EmptyMessageWrite(15), EmptyMessageWrite(16), EmptyMessageWrite(17),
        EmptyMessageWrite(19), EmptyMessageWrite(20),
        MessageWrite(21, <<
            MessageWrite(5, <<
                EmptyMessageWrite(3) >>),
            EmptyMessageWrite(6) >>),
        EmptyMessageWrite(25),
        MessageWrite(30, <<
            EmptyMessageWrite(2) >>),
        EmptyMessageWrite(31), EmptyMessageWrite(32),
        MessageWrite(33, <<
            EmptyMessageWrite(1) >>),
        EmptyMessageWrite(34), EmptyMessageWrite(36), EmptyMessageWrite(37),
        EmptyMessageWrite(38), EmptyMessageWrite(39), EmptyMessageWrite(40),
        EmptyMessageWrite(41) >>

buildField1_1_5 ==
    <<
        MessageWrite(2, <<
            MessageWrite(2, <<
                MessageWrite(3, <<
                    EmptyMessageWrite(2) >>),
                MessageWrite(4, <<
                    EmptyMessageWrite(2) >>) >>),
            MessageWrite(4, <<
                MessageWrite(2, <<
                    IntWrite(2, 1) >>) >>),
            MessageWrite(5, <<
                EmptyMessageWrite(2) >>),
            IntWrite(6, 1) >>),
        MessageWrite(3, <<
            MessageWrite(2, <<
                EmptyMessageWrite(3), EmptyMessageWrite(4) >>),
            MessageWrite(3, <<
                EmptyMessageWrite(2),
                MessageWrite(3, <<
                    IntWrite(2, 1) >>) >>),
            EmptyMessageWrite(4),
            MessageWrite(5, <<
                MessageWrite(2, <<
                    IntWrite(2, 1) >>) >>),
            EmptyMessageWrite(7) >>),
        MessageWrite(4, <<
            MessageWrite(2, <<
                EmptyMessageWrite(2) >>) >>),
        MessageWrite(5, <<
            MessageWrite(1, <<
                MessageWrite(2, <<
                    EmptyMessageWrite(3), EmptyMessageWrite(4) >>),
                MessageWrite(3, <<
                    EmptyMessageWrite(2),
                    MessageWrite(3, <<
                        IntWrite(2, 1) >>) >>) >>),
            IntWrite(3, 1) >>) >>

buildField1_1 ==
    <<
        MessageWrite(1, buildField1_1_1), MessageWrite(5, buildField1_1_5),
        EmptyMessageWrite(8),
        MessageWrite(9, <<
            EmptyMessageWrite(2),
            MessageWrite(3, <<
                EmptyMessageWrite(1), EmptyMessageWrite(2) >>),
            MessageWrite(4, <<
                MessageWrite(1, <<
                    MessageWrite(3, <<
                        MessageWrite(1, <<
                            MessageWrite(1, <<
                                MessageWrite(5, <<
                                    EmptyMessageWrite(1) >>),
                                EmptyMessageWrite(6) >>),
                            EmptyMessageWrite(2),
                            MessageWrite(3, <<
                                MessageWrite(1, <<
                                    MessageWrite(5, <<
                                        EmptyMessageWrite(1) >>),
                                    EmptyMessageWrite(6) >>),
                                EmptyMessageWrite(2) >>) >>) >>),
                    MessageWrite(4, <<
                        MessageWrite(1, <<
                            EmptyMessageWrite(2) >>) >>) >>) >>) >>),
        MessageWrite(11, <<
            EmptyMessageWrite(2), EmptyMessageWrite(3),
            MessageWrite(4, <<
                MessageWrite(2, <<
                    IntWrite(1, 1), IntWrite(2, 2) >>) >>) >>),
        EmptyMessageWrite(12),
        MessageWrite(14, <<
            EmptyMessageWrite(2), EmptyMessageWrite(3),
            MessageWrite(4, <<
                MessageWrite(2, <<
                    IntWrite(1, 1), IntWrite(2, 2) >>) >>) >>),
        MessageWrite(15, <<
            EmptyMessageWrite(1), EmptyMessageWrite(4) >>),
        MessageWrite(17, <<
            EmptyMessageWrite(1), EmptyMessageWrite(4) >>),
        MessageWrite(19, <<
            EmptyMessageWrite(2), EmptyMessageWrite(3),
            MessageWrite(4, <<
                MessageWrite(2, <<
                    IntWrite(1, 1), IntWrite(2, 2) >>) >>) >>),
        EmptyMessageWrite(22), EmptyMessageWrite(23) >>

buildField1_2 ==
    <<
        MessageWrite(1, <<
            EmptyMessageWrite(2), EmptyMessageWrite(3), EmptyMessageWrite(4),
            EmptyMessageWrite(5),
            MessageWrite(6, <<
                EmptyMessageWrite(1), EmptyMessageWrite(2), EmptyMessageWrite(3),
                EmptyMessageWrite(4), EmptyMessageWrite(5), EmptyMessageWrite(7) >>),
            EmptyMessageWrite(7), EmptyMessageWrite(8), EmptyMessageWrite(10),
            EmptyMessageWrite(12),
            MessageWrite(13, <<
                EmptyMessageWrite(2), EmptyMessageWrite(3) >>),
            MessageWrite(15, <<
                EmptyMessageWrite(1) >>),
            EmptyMessageWrite(18) >>),
        MessageWrite(4, <<
            EmptyMessageWrite(1) >>),
        EmptyMessageWrite(9),
        MessageWrite(11, <<
            MessageWrite(1, <<
                EmptyMessageWrite(1), EmptyMessageWrite(4), EmptyMessageWrite(5),
                EmptyMessageWrite(6), EmptyMessageWrite(9) >>) >>),
        MessageWrite(14, <<
            MessageWrite(1, <<
                MessageWrite(1, <<
                    EmptyMessageWrite(1),
                    MessageWrite(2, <<
                        MessageWrite(2, <<
                            MessageWrite(1, <<
                                EmptyMessageWrite(1) >>),
                            EmptyMessageWrite(3) >>) >>),
                    MessageWrite(3, <<
                        MessageWrite(4, <<
                            MessageWrite(1, <<
                                EmptyMessageWrite(1) >>),
                            EmptyMessageWrite(3) >>),
                        MessageWrite(5, <<
                            MessageWrite(1, <<
                                EmptyMessageWrite(1) >>),
                            EmptyMessageWrite(3) >>) >>) >>),
                EmptyMessageWrite(2) >>) >>),
        EmptyMessageWrite(17),
        MessageWrite(18, <<
            EmptyMessageWrite(1),
            MessageWrite(2, <<
                EmptyMessageWrite(1) >>) >>),
        MessageWrite(20, <<
            MessageWrite(2, <<
                EmptyMessageWrite(1), EmptyMessageWrite(2) >>) >>),
        EmptyMessageWrite(22), EmptyMessageWrite(23), EmptyMessageWrite(24) >>

buildField1_3 ==
    <<
        EmptyMessageWrite(2),
        MessageWrite(3, <<
            EmptyMessageWrite(2), EmptyMessageWrite(3), EmptyMessageWrite(7),
            EmptyMessageWrite(8),
            MessageWrite(14, <<
                EmptyMessageWrite(1) >>),
            EmptyMessageWrite(16),
            MessageWrite(17, <<
                EmptyMessageWrite(2) >>),
            EmptyMessageWrite(18), EmptyMessageWrite(19), EmptyMessageWrite(20),
            EmptyMessageWrite(21), EmptyMessageWrite(22), EmptyMessageWrite(23),
            MessageWrite(27, <<
                EmptyMessageWrite(1),
                MessageWrite(2, <<
                    EmptyMessageWrite(1) >>) >>),
            EmptyMessageWrite(29), EmptyMessageWrite(30), EmptyMessageWrite(31),
            EmptyMessageWrite(32), EmptyMessageWrite(34), EmptyMessageWrite(37),
            EmptyMessageWrite(38), EmptyMessageWrite(39), EmptyMessageWrite(41),
            MessageWrite(43, <<
                EmptyMessageWrite(1) >>),
            MessageWrite(45, <<
                MessageWrite(1, <<
                    EmptyMessageWrite(1) >>) >>),
            MessageWrite(46, <<
                EmptyMessageWrite(1), EmptyMessageWrite(2), EmptyMessageWrite(3) >>),
            EmptyMessageWrite(47) >>),
        MessageWrite(4, <<
            EmptyMessageWrite(2),
            MessageWrite(3, <<
                EmptyMessageWrite(1) >>),
            EmptyMessageWrite(4),
            MessageWrite(5, <<
                EmptyMessageWrite(1) >>) >>),
        EmptyMessageWrite(7), EmptyMessageWrite(12), EmptyMessageWrite(13),
        MessageWrite(14, <<
            EmptyMessageWrite(1),
            MessageWrite(2, <<
                EmptyMessageWrite(1),
                MessageWrite(2, <<
                    EmptyMessageWrite(1) >>),
                EmptyMessageWrite(3),
                MessageWrite(4, <<
                    EmptyMessageWrite(1) >>) >>),
            MessageWrite(3, <<
                EmptyMessageWrite(1),
                MessageWrite(2, <<
                    EmptyMessageWrite(1) >>),
                EmptyMessageWrite(3), EmptyMessageWrite(4) >>) >>),
        EmptyMessageWrite(15),
        MessageWrite(16, <<
            EmptyMessageWrite(1) >>),
        EmptyMessageWrite(18),
        MessageWrite(19, <<
            MessageWrite(4, <<
                EmptyMessageWrite(2) >>),
            MessageWrite(6, <<
                EmptyMessageWrite(2), EmptyMessageWrite(3) >>),
            MessageWrite(7, <<
                EmptyMessageWrite(2), EmptyMessageWrite(3) >>),
            EmptyMessageWrite(8), EmptyMessageWrite(9) >>),
        EmptyMessageWrite(20), EmptyMessageWrite(22), EmptyMessageWrite(24),
        EmptyMessageWrite(25), EmptyMessageWrite(26) >>

buildField1_9 ==
    <<
        MessageWrite(1, <<
            MessageWrite(2, <<
                EmptyMessageWrite(1), EmptyMessageWrite(2) >>) >>),
        MessageWrite(2, <<
            MessageWrite(3, <<
                IntWrite(2, 1) >>) >>),
        MessageWrite(3, <<
            EmptyMessageWrite(2) >>),
        EmptyMessageWrite(4),
        MessageWrite(7, <<
            EmptyMessageWrite(1) >>),
        MessageWrite(8, <<
            IntWrite(1, 2), StringWrite(2, <<1, 2, 3, 5, 6, 7>>) >>),
        EmptyMessageWrite(9),
        MessageWrite(11, <<
            EmptyMessageWrite(1) >>) >>

buildField1_12 ==
    <<
        MessageWrite(2, <<
            EmptyMessageWrite(1), EmptyMessageWrite(2) >>),
        MessageWrite(3, <<
            EmptyMessageWrite(1) >>),
        EmptyMessageWrite(4) >>

buildField1_15 ==
    <<
        MessageWrite(3, <<
            IntWrite(1, 1) >>) >>

buildField1_19 ==
    <<
        MessageWrite(1, <<
            EmptyMessageWrite(1), EmptyMessageWrite(2) >>),
        MessageWrite(2, <<
            IntWrite(1, 1), IntWrite(1, 2), IntWrite(1, 4), IntWrite(1, 6),
            IntWrite(1, 5), IntWrite(1, 7) >>),
        MessageWrite(3, <<
            EmptyMessageWrite(1), EmptyMessageWrite(2) >>),
        MessageWrite(5, <<
            EmptyMessageWrite(1), EmptyMessageWrite(2) >>),
        MessageWrite(6, <<
            EmptyMessageWrite(1) >>),
        MessageWrite(7, <<
            EmptyMessageWrite(1), EmptyMessageWrite(2) >>),
        MessageWrite(8, <<
            EmptyMessageWrite(1) >>) >>

buildField1_21 ==
    <<
        MessageWrite(2, <<
            MessageWrite(2, <<
                EmptyMessageWrite(4) >>),
            EmptyMessageWrite(4), EmptyMessageWrite(5) >>),
        MessageWrite(3, <<
            MessageWrite(2, <<
                IntWrite(1, 1) >>),
            MessageWrite(4, <<
                EmptyMessageWrite(2) >>) >>),
        MessageWrite(5, <<
            EmptyMessageWrite(1) >>),
        MessageWrite(6, <<
            EmptyMessageWrite(1),
            MessageWrite(2, <<
                EmptyMessageWrite(1) >>) >>),
        MessageWrite(7, <<
            IntWrite(1, 2),
            StringWrite(2, <<1, 7, 8, 9, 10, 13, 14, 15, 17, 19, 20, 22, 23, 45, 46, 47, 48, 49, 58, 6, 24, 50, 54, 55, 59, 62, 63, 64, 65, 56, 57, 60, 71, 66, 69, 68>>),
            StringWrite(3, <<1>>) >>),
        MessageWrite(8, <<
            MessageWrite(3, <<
                MessageWrite(1, <<
                    MessageWrite(1, <<
                        MessageWrite(2, <<
                            IntWrite(1, 1) >>),
                        MessageWrite(4, <<
                            EmptyMessageWrite(2) >>) >>) >>),
                EmptyMessageWrite(3) >>),
            MessageWrite(4, <<
                EmptyMessageWrite(1) >>),
            MessageWrite(5, <<
                MessageWrite(1, <<
                    MessageWrite(2, <<
                        IntWrite(1, 1) >>),
                    MessageWrite(4, <<
                        EmptyMessageWrite(2) >>) >>) >>) >>),
        MessageWrite(9, <<
            EmptyMessageWrite(1) >>),
        MessageWrite(10, <<
            MessageWrite(1, <<
                EmptyMessageWrite(1) >>),
            EmptyMessageWrite(3), EmptyMessageWrite(5),
            MessageWrite(6, <<
                EmptyMessageWrite(1) >>),
            EmptyMessageWrite(7), EmptyMessageWrite(9), EmptyMessageWrite(10) >>),
        EmptyMessageWrite(11), EmptyMessageWrite(12), EmptyMessageWrite(13),
        EmptyMessageWrite(14),
        MessageWrite(16, <<
            EmptyMessageWrite(1) >>) >>

buildField1_22 ==
    <<
        IntWrite(1, 1),
        StringWrite(2, <<49, 48, 55, 56, 49, 56, 50, 51, 52, 52, 49, 52, 54, 55, 51, 54, 56, 54, 56, 56, 56>>) >>

buildField1_25 ==
    <<
        MessageWrite(1, <<
            MessageWrite(1, <<
                MessageWrite(1, <<
                    EmptyMessageWrite(1) >>) >>) >>),
        EmptyMessageWrite(2) >>

buildField2 ==
    <<
        MessageWrite(1, <<
            MessageWrite(1, <<
                MessageWrite(1, <<
                    EmptyMessageWrite(1) >>),
                EmptyMessageWrite(2) >>) >>),
        EmptyMessageWrite(2) >>

\* Mutant: deletions are asked for only on an incremental sync
buildLibraryStateRequest_FilterByToken(stateToken, pageToken) ==
    LET field1 ==
            <<MessageWrite(1, buildField1_1), MessageWrite(2, buildField1_2),
              MessageWrite(3, buildField1_3)>>
            \o (IF pageToken # "" THEN <<StringWrite(4, TokenBytes(pageToken))>> ELSE <<>>)
            \o (IF stateToken # "" THEN <<StringWrite(6, TokenBytes(stateToken))>> ELSE <<>>)
            \o <<IntWrite(7, 2), MessageWrite(9, buildField1_9),
                 IntWrite(11, 1), IntWrite(11, 2)>>
            \o (IF stateToken # "" THEN <<IntWrite(11, 6)>> ELSE <<>>)
            \o <<MessageWrite(12, buildField1_12), EmptyMessageWrite(13),
                 MessageWrite(15, buildField1_15), MessageWrite(19, buildField1_19),
                 MessageWrite(21, buildField1_21), MessageWrite(22, buildField1_22),
                 MessageWrite(25, buildField1_25), EmptyMessageWrite(26)>>
    IN  <<MessageWrite(1, field1), MessageWrite(2, buildField2)>>

\* buildLibraryStateRequest builds the complete request for get_library_state
buildLibraryStateRequest(stateToken, pageToken) ==
    LET field1 ==
            <<MessageWrite(1, buildField1_1), MessageWrite(2, buildField1_2),
              MessageWrite(3, buildField1_3)>>
            \o (IF pageToken # "" THEN <<StringWrite(4, TokenBytes(pageToken))>> ELSE <<>>)
            \o (IF stateToken # "" THEN <<StringWrite(6, TokenBytes(stateToken))>> ELSE <<>>)
            \o <<IntWrite(7, 2), MessageWrite(9, buildField1_9),
                 IntWrite(11, 1), IntWrite(11, 2), IntWrite(11, 6),
                 MessageWrite(12, buildField1_12), EmptyMessageWrite(13),
                 MessageWrite(15, buildField1_15), MessageWrite(19, buildField1_19),
                 MessageWrite(21, buildField1_21), MessageWrite(22, buildField1_22),
                 MessageWrite(25, buildField1_25), EmptyMessageWrite(26)>>
    IN  <<MessageWrite(1, field1), MessageWrite(2, buildField2)>>

\* Mutant: the page token is passed in the place of the state token
buildLibraryPageInitRequest_SwapsArguments(pageToken) ==
    buildLibraryStateRequest(pageToken, "")

buildLibraryPageInitRequest(pageToken) == buildLibraryStateRequest("", pageToken)

\* Mutant: the two tokens are handed over in the order they are received
buildLibraryPageRequest_SwapsArguments(pageToken, stateToken) ==
    buildLibraryStateRequest(pageToken, stateToken)

buildLibraryPageRequest(pageToken, stateToken) ==
    buildLibraryStateRequest(stateToken, pageToken)

\* proto.Unmarshal(bodyBytes, &pbResp): err == nil exactly for well-formed bytes
UnmarshalOk(body) == body.wellformed

\* The part of doLibraryRequest after a successful DoRequest: (resp, err)
DecodeLibraryResponse(body) ==
    [resp |-> IF UnmarshalOk(body) /\ body.data # <<>>
              THEN <<parseFromProto(body, body.data[1])>>
              ELSE <<EmptyResponse(body)>>,
     err |-> ""]

\* The entry point called and the arguments it was given ("" for the
\* argument the entry point does not have)
Call(entry, stateToken, pageToken) ==
    [entry |-> entry, stateToken |-> stateToken, pageToken |-> pageToken]

\* An entry point builds its request and hands it to doLibraryRequest, which
\* hands it to DoRequest
StartRequest(c, body) ==
    /\ pc = "idle"
    /\ pc' = "request"
    /\ call' = <<c>>
    /\ requestBody' = <<body>>
    /\ doRequests' = 1
    /\ bodyBytes' = <<>>
    /\ resp' = <<>>
    /\ err' = ""
    /\ UNCHANGED <<codecVars, goVars, uploadVars, managerVars, authVars>>

GetLibraryState ==
    \E stateToken \in Tokens :
        /\ StartRequest(Call("GetLibraryState", stateToken, ""),
                        buildLibraryStateRequest(stateToken, ""))
        /\ UNCHANGED cmd

GetLibraryPageInit ==
    \E pageToken \in Tokens :
        /\ StartRequest(Call("GetLibraryPageInit", "", pageToken),
                        buildLibraryPageInitRequest(pageToken))
        /\ UNCHANGED cmd

GetLibraryPage ==
    \E pageToken \in Tokens, stateToken \in Tokens :
        /\ StartRequest(Call("GetLibraryPage", stateToken, pageToken),
                        buildLibraryPageRequest(pageToken, stateToken))
        /\ UNCHANGED cmd

\* The ways DoRequest fails: BearerToken, Client.Do, checkResponse (a status
\* outside 2xx), readGzipBody; doLibraryRequest wraps each
RequestErrors == {
    "library request failed: failed to get bearer token",
    "library request failed: request failed",
    "library request failed: request failed with status",
    "library request failed: failed to read response body" }

\* Mutant: a failed request is sent again
DoRequestFails_Retries ==
    /\ pc = "request"
    /\ doRequests < 2
    /\ doRequests' = doRequests + 1
    /\ UNCHANGED <<pc, call, requestBody, cmd, bodyBytes, resp, err>>
    /\ UNCHANGED <<codecVars, goVars, uploadVars, managerVars, authVars>>

\* doLibraryRequest, DoRequest returned an error
DoRequestFails ==
    /\ pc = "request"
    /\ pc' = "idle"
    /\ call' = <<>>
    /\ requestBody' = <<>>
    /\ cmd' = <<>>
    /\ bodyBytes' = <<>>
    /\ resp' = <<>>
    /\ \E e \in RequestErrors : err' = e
    /\ UNCHANGED doRequests
    /\ UNCHANGED <<codecVars, goVars, uploadVars, managerVars, authVars>>

\* doLibraryRequest, DoRequest returned the response body
DoRequestReturns ==
    /\ pc = "request"
    /\ \/ \E wellformed \in BOOLEAN : bodyBytes' = <<ResponseBody(wellformed, <<>>)>>
       \/ \E i \in 0..MaxRecords : \E j \in 0..(MaxRecords - i) :
            \E k \in 0..(MaxRecords - i - j) :
              \E m \in SeqsOfLen(MediaRecords, i), a \in SeqsOfLen(AlbumRecords, j),
                 d \in SeqsOfLen(DeletionRecords, k), st \in Tokens, npt \in Tokens :
                bodyBytes' = <<ResponseBody(TRUE, <<LibraryStateData(st, npt, m, a, d)>>)>>
    /\ pc' = "decode"
    /\ call' = <<>>
    /\ requestBody' = <<>>
    /\ UNCHANGED <<doRequests, cmd, resp, err>>
    /\ UNCHANGED <<codecVars, goVars, uploadVars, managerVars, authVars>>

\* media records that link to one another: two canonical records with one
\* dedup_key, and copies of two dedup_keys in two albums
LinkedRecords == {
    MediaRecord("M1"), MediaRecord("M2"), MediaRecord("M3"), MediaRecord("M4"),
    \* non-canonical copy of H2 in album A1
    MediaItemData("M6", Metadata("f.jpg", <<"A1">>, <<"H2">>, <<27>>), <<>>) }

LinkedAlbums == { [album_key |-> k] : k \in {"A1", "A2"} }

LinkedDeletions == {
    DeletionData(DeletionInfo(1, <<[media_key |-> "D1"]>>)),
    DeletionData(DeletionInfo(1, <<[media_key |-> "D2"]>>)),
    DeletionData(DeletionInfo(4, <<[media_key |-> "D4"]>>)) }

\* doLibraryRequest, DoRequest returned a page of such records
DoRequestReturnsLinkedPage ==
    /\ pc = "request"
    /\ \E i \in 0..MaxLinked : \E j \in 0..Min(2, MaxLinked - i) :
         \E k \in 0..Min(2, MaxLinked - i - j) :
           \E m \in SeqsOfLen(LinkedRecords, i), a \in SeqsOfLen(LinkedAlbums, j),
              d \in SeqsOfLen(LinkedDeletions, k) :
             bodyBytes' = <<ResponseBody(TRUE, <<LibraryStateData("T1", "", m, a, d)>>)>>
    /\ pc' = "decode"
    /\ call' = <<>>
    /\ requestBody' = <<>>
    /\ UNCHANGED <<doRequests, cmd, resp, err>>
    /\ UNCHANGED <<codecVars, goVars, uploadVars, managerVars, authVars>>

\* Mutant: while the page names a next page, the call goes on to fetch it
DecodeResponse_Continues ==
    /\ pc = "decode"
    /\ LET r == DecodeLibraryResponse(bodyBytes[1])
       IN  /\ resp' = r.resp
           /\ err' = r.err
           /\ IF r.resp[1].NextPageToken # "" /\ doRequests < 2
              THEN /\ pc' = "request"
                   /\ requestBody' = <<buildLibraryPageRequest(r.resp[1].NextPageToken,
                                                               r.resp[1].StateToken)>>
                   /\ doRequests' = doRequests + 1
                   /\ UNCHANGED <<call, cmd>>
              ELSE /\ pc' = "idle"
                   /\ call' = <<>>
                   /\ cmd' = <<>>
                   /\ UNCHANGED <<requestBody, doRequests>>
    /\ bodyBytes' = <<>>
    /\ UNCHANGED <<codecVars, goVars, uploadVars, managerVars, authVars>>

\* doLibraryRequest, from proto.Unmarshal to the return; the command that
\* made the call prints the response and ends
DecodeResponse ==
    /\ pc = "decode"
    /\ LET r == DecodeLibraryResponse(bodyBytes[1])
       IN  /\ resp' = r.resp
           /\ err' = r.err
    /\ pc' = "idle"
    /\ call' = <<>>
    /\ cmd' = <<>>
    /\ bodyBytes' = <<>>
    /\ UNCHANGED <<requestBody, doRequests>>
    /\ UNCHANGED <<codecVars, goVars, uploadVars, managerVars, authVars>>

(***************************************************************************)
(* The library command of the command line client.  One invocation is one  *)
(* process; what an invocation printed is all the next one can know of it. *)
(***************************************************************************)
\* Mutant: a page token alone is enough to continue a pagination
libraryTestDispatch_PageTokenOnly(stateToken, pageToken) ==
    IF pageToken # ""
    THEN [call |-> Call("GetLibraryPage", stateToken, pageToken),
          request |-> buildLibraryPageRequest(pageToken, stateToken)]
    ELSE [call |-> Call("GetLibraryState", stateToken, ""),
          request |-> buildLibraryStateRequest(stateToken, "")]

\* The entry point libraryTestAction calls for the flags it was given
libraryTestDispatch(stateToken, pageToken) ==
    IF stateToken # "" /\ pageToken # ""
    THEN [call |-> Call("GetLibraryPage", stateToken, pageToken),
          request |-> buildLibraryPageRequest(pageToken, stateToken)]
    ELSE IF pageToken # ""
    THEN [call |-> Call("GetLibraryPageInit", "", pageToken),
          request |-> buildLibraryPageInitRequest(pageToken)]
    ELSE [call |-> Call("GetLibraryState", stateToken, ""),
          request |-> buildLibraryStateRequest(stateToken, "")]

\* the tokens of the response printed last, <<>> when the last command failed
\* or none was run
PrintedTokens ==
    IF resp # <<>>
    THEN <<[StateToken |-> resp[1].StateToken, NextPageToken |-> resp[1].NextPageToken]>>
    ELSE <<>>

SetupErrors == { "failed to load config", "no authentication configured",
                 "failed to create API client" }

\* libraryTestAction up to the call of the entry point: it ends with an
\* error when the configuration, the credentials or the client are missing
libraryTestAction ==
    \/ /\ pc = "idle"
       /\ \E e \in SetupErrors : err' = e
       /\ resp' = <<>>
       /\ UNCHANGED <<pc, call, requestBody, doRequests, cmd, bodyBytes>>
       /\ UNCHANGED <<codecVars, goVars, uploadVars, managerVars, authVars>>
    \/ \E stateToken \in Tokens, pageToken \in Tokens :
          LET d == libraryTestDispatch(stateToken, pageToken)
          IN  /\ StartRequest(d.call, d.request)
              /\ cmd' = <<[stateToken |-> stateToken, pageToken |-> pageToken,
                           printed |-> PrintedTokens]>>


(***************************************************************************)
(* Wire codec.  A byte is a number in 0..255.  A uint64 or uint32 is kept  *)
(* as its base-128 digits, least significant first, without trailing zero  *)
(* digits, so that it never leaves the range of the model checker's        *)
(* integers; a string is the sequence of its bytes.                        *)
(***************************************************************************)
VarintType == 0
Fixed64Type == 1
BytesType == 2
StartGroupType == 3
Fixed32Type == 5
MaxVarintLen == 10      \* bytes of the longest varint protowire accepts
MaxFieldDigits == 5     \* base-128 digits of a tag whose field number fits in int32

RECURSIVE Normalize(_)
\* drop the most significant zero digits
Normalize(digits) ==
    IF digits # <<>> /\ digits[Len(digits)] = 0
    THEN Normalize(SubSeq(digits, 1, Len(digits) - 1))
    ELSE digits

RECURSIVE Digits(_)
\* the base-128 digits of a number
Digits(v) == IF v = 0 THEN <<>> ELSE <<v % 128>> \o Digits(v \div 128)

\* b[n:]
Drop(b, n) == SubSeq(b, n + 1, Len(b))

RECURSIVE ConsumeVarintLoop(_, _, _)
ConsumeVarintLoop(b, i, digits) ==
    IF i > MaxVarintLen \/ i > Len(b) THEN [n |-> -1, digits |-> <<>>]
    ELSE IF b[i] < 128
         THEN IF i = MaxVarintLen /\ b[i] > 1 THEN [n |-> -1, digits |-> <<>>]
              ELSE [n |-> i, digits |-> Normalize(Append(digits, b[i]))]
         ELSE ConsumeVarintLoop(b, i + 1, Append(digits, b[i] - 128))

\* protowire.ConsumeVarint: (v, n), n < 0 for a truncated or overlong varint
ConsumeVarint(b) == ConsumeVarintLoop(b, 1, <<>>)

\* v as a length: every value of three digits or more exceeds any buffer
LengthOf(digits) ==
    IF Len(digits) > 2 THEN 16384
    ELSE (IF Len(digits) >= 1 THEN digits[1] ELSE 0)
         + (IF Len(digits) >= 2 THEN 128 * digits[2] ELSE 0)

Digit(digits, i) == IF i <= Len(digits) THEN digits[i] ELSE 0

\* protowire.ConsumeTag: (fieldNum, wireType, n); n < 0 for a bad varint, a
\* field number above MaxInt32 or the field number 0
ConsumeTag(b) ==
    LET v == ConsumeVarint(b)
        d == v.digits
        fieldNum == (Digit(d, 1) \div 8) + 16 * Digit(d, 2) + 2048 * Digit(d, 3)
                    + 262144 * Digit(d, 4) + 33554432 * Digit(d, 5)
        bad == [fieldNum |-> 0, wireType |-> 0, n |-> -1]
    IN  IF v.n < 0 THEN bad
        ELSE IF Len(d) > MaxFieldDigits \/ Digit(d, MaxFieldDigits) >= 64 THEN bad
        ELSE IF fieldNum < 1 THEN bad
        ELSE [fieldNum |-> fieldNum, wireType |-> Digit(d, 1) % 8, n |-> v.n]

RECURSIVE Bits(_, _)
\* the k low bits of a byte, least significant first
Bits(byte, k) == IF k = 0 THEN <<>> ELSE <<byte % 2>> \o Bits(byte \div 2, k - 1)

RECURSIVE BytesToBits(_)
BytesToBits(b) == IF b = <<>> THEN <<>> ELSE Bits(b[1], 8) \o BytesToBits(Drop(b, 1))

RECURSIVE BitsToDigits(_)
BitsToDigits(bits) ==
    IF bits = <<>> THEN <<>>
    ELSE LET g == SubSeq(bits, 1, IF Len(bits) < 7 THEN Len(bits) ELSE 7)
             val == Digit(g, 1) + 2 * Digit(g, 2) + 4 * Digit(g, 3) + 8 * Digit(g, 4)
                    + 16 * Digit(g, 5) + 32 * Digit(g, 6) + 64 * Digit(g, 7)
         IN  <<val>> \o BitsToDigits(Drop(bits, Len(g)))

\* the little-endian integer of a fixed32 / fixed64 payload, as digits
LittleEndian(b) == Normalize(BitsToDigits(BytesToBits(b)))

\* protowire.ConsumeFixed32 / ConsumeFixed64 on size bytes
ConsumeFixed(b, size) ==
    IF Len(b) < size THEN [n |-> -1, digits |-> <<>>]
    ELSE [n |-> size, digits |-> LittleEndian(SubSeq(b, 1, size))]

\* protowire.ConsumeBytes: (v, n), n < 0 for a bad or truncated length
ConsumeBytes(b) ==
    LET m == ConsumeVarint(b)
        len == LengthOf(m.digits)
    IN  IF m.n < 0 THEN [n |-> -1, v |-> <<>>]
        ELSE IF len > Len(b) - m.n THEN [n |-> -1, v |-> <<>>]
        ELSE [n |-> m.n + len, v |-> SubSeq(b, m.n + 1, m.n + len)]

\* Mutant: the early return for the empty payload is missing and the loop
\* asks for at least one byte
isPrintable_RejectsEmpty(b) ==
    /\ b # <<>>
    /\ \A i \in DOMAIN b :
          (b[i] < 32 \/ b[i] > 126) => b[i] \in {10, 13, 9}

isPrintable(b) ==
    \A i \in DOMAIN b :
        (b[i] < 32 \/ b[i] > 126) => b[i] \in {10, 13, 9}

RECURSIVE Decimal(_)
\* the ASCII decimal digits of a positive number
Decimal(k) == IF k = 0 THEN <<>> ELSE Decimal(k \div 10) \o <<48 + (k % 10)>>

\* fmt.Sprintf("bytes[%d]", n)
BytesMarker(k) ==
    <<98, 121, 116, 101, 115, 91>> \o (IF k = 0 THEN <<48>> ELSE Decimal(k)) \o <<93>>

\* the dynamic types of the values parseProtobufMessage stores
Uint64Value(digits) == [kind |-> "uint64", digits |-> digits]
Uint32Value(digits) == [kind |-> "uint32", digits |-> digits]
StringValue(bytes) == [kind |-> "string", bytes |-> bytes]
MapValue(fields) == [kind |-> "map", fields |-> fields]
ListValue(items) == [kind |-> "list", items |-> items]

\* Mutant: a decode fault ends the loop and the fields seen so far are returned
DecodeError_Partial(result) == [ok |-> TRUE, fields |-> result]

\* return nil, fmt.Errorf(...)
DecodeError(result) == [ok |-> FALSE, fields |-> EmptyMap]

\* Mutant: a repeated field number keeps its last value only
StoreField_Overwrites(result, fieldKey, value) == MapPut(result, fieldKey, value)

\* The repeated-field handling at the end of the loop body.  fieldKey is the
\* field number itself: its decimal rendering is one-to-one.
StoreField(result, fieldKey, value) ==
    IF fieldKey \in DOMAIN result
    THEN IF result[fieldKey].kind = "list"
         THEN MapPut(result, fieldKey,
                     ListValue(Append(result[fieldKey].items, value)))
         ELSE MapPut(result, fieldKey, ListValue(<<result[fieldKey], value>>))
    ELSE MapPut(result, fieldKey, value)

\* Mutant: a payload that decodes without a fault is kept as a nested message
\* even when it has no field
BytesFieldValue_KeepsEmptyMap(v, nested) ==
    IF nested.ok THEN MapValue(nested.fields)
    ELSE IF isPrintable(v) THEN StringValue(v)
    ELSE StringValue(BytesMarker(Len(v)))

\* The value kept for a length-delimited payload, given its nested decode
BytesFieldValue(v, nested) ==
    IF nested.ok /\ DOMAIN nested.fields # {} THEN MapValue(nested.fields)
    ELSE IF isPrintable(v) THEN StringValue(v)
    ELSE StringValue(BytesMarker(Len(v)))

RECURSIVE parseLoop(_, _)
\* The loop of parseProtobufMessage on the rest of the buffer
parseLoop(data, result) ==
    IF data = <<>> THEN [ok |-> TRUE, fields |-> result]
    ELSE
      LET tag == ConsumeTag(data)
          rest == Drop(data, tag.n)
      IN  IF tag.n < 0 THEN DecodeError(result)
          ELSE IF tag.wireType = VarintType THEN
              LET v == ConsumeVarint(rest)
              IN  IF v.n < 0 THEN DecodeError(result)
                  ELSE parseLoop(Drop(rest, v.n),
                                 StoreField(result, tag.fieldNum, Uint64Value(v.digits)))
          ELSE IF tag.wireType = Fixed64Type THEN
              LET v == ConsumeFixed(rest, 8)
              IN  IF v.n < 0 THEN DecodeError(result)
                  ELSE parseLoop(Drop(rest, v.n),
                                 StoreField(result, tag.fieldNum, Uint64Value(v.digits)))
          ELSE IF tag.wireType = BytesType THEN
              LET v == ConsumeBytes(rest)
              IN  IF v.n < 0 THEN DecodeError(result)
                  ELSE parseLoop(Drop(rest, v.n),
                                 StoreField(result, tag.fieldNum,
                                            BytesFieldValue(v.v, parseLoop(v.v, EmptyMap))))
          ELSE IF tag.wireType = StartGroupType THEN DecodeError(result)
          ELSE IF tag.wireType = Fixed32Type THEN
              LET v == ConsumeFixed(rest, 4)
              IN  IF v.n < 0 THEN DecodeError(result)
                  ELSE parseLoop(Drop(rest, v.n),
                                 StoreField(result, tag.fieldNum, Uint32Value(v.digits)))
          ELSE DecodeError(result)

\* parseProtobufMessage: (map, err); ok = FALSE is (nil, err)
parseProtobufMessage(data) == parseLoop(data, EmptyMap)

RECURSIVE MarshalJSON(_)
\* json.MarshalIndent of a decoded value: numbers, strings, objects, arrays
MarshalJSON(value) ==
    IF value.kind \in {"uint64", "uint32"} THEN [json |-> "number", digits |-> value.digits]
    ELSE IF value.kind = "string" THEN [json |-> "string", bytes |-> value.bytes]
    ELSE IF value.kind = "list"
         THEN [json |-> "array",
               items |-> [i \in DOMAIN value.items |-> MarshalJSON(value.items[i])]]
    ELSE [json |-> "object",
          members |-> [k \in DOMAIN value.fields |-> MarshalJSON(value.fields[k])]]

\* LibraryStateResponse.ToRawJSON: (string, err); ok = FALSE is ("", err)
ToRawJSON(bytes) ==
    LET parsed == parseProtobufMessage(bytes)
    IN  IF ~ parsed.ok THEN [ok |-> FALSE, json |-> <<>>]
        ELSE [ok |-> TRUE, json |-> <<MarshalJSON(MapValue(parsed.fields))>>]

(***************************************************************************)
(* Encode helpers                                                          *)
(***************************************************************************)
RECURSIVE AppendVarintDigits(_, _)
\* protowire.AppendVarint on the digits of v
AppendVarintDigits(b, digits) ==
    IF Len(digits) <= 1 THEN Append(b, Digit(digits, 1))
    ELSE AppendVarintDigits(Append(b, 128 + digits[1]), Drop(digits, 1))

appendVarint(b, v) == AppendVarintDigits(b, Digits(v))

appendTag(b, fieldNum, wireType) == appendVarint(b, fieldNum * 8 + wireType)

appendBytes(b, v) == appendVarint(b, Len(v)) \o v

appendString(b, str) == appendVarint(b, Len(str)) \o str

appendMessage(b, fieldNum, msg) == appendBytes(appendTag(b, fieldNum, BytesType), msg)

appendEmptyMessage(b, fieldNum) == appendMessage(b, fieldNum, <<>>)

appendIntField(b, fieldNum, v) == appendVarint(appendTag(b, fieldNum, VarintType), v)

appendStringField(b, fieldNum, str) == appendString(appendTag(b, fieldNum, BytesType), str)

\* a fixed32 / fixed64 field as the service writes it
appendFixedField(b, fieldNum, wireType, payload) == appendTag(b, fieldNum, wireType) \o payload

(***************************************************************************)
(* Buffers the decoder is run on: built with the encode helpers, with      *)
(* fixed-width fields, and with stray bytes that make the buffer faulty.   *)
(***************************************************************************)
IntWrites == { <<1, 1>>, <<2, 300>> }                      \* (field number, value)
StringWrites == { <<1, <<65>>>> }                           \* (field number, bytes): "A"
\* strings that are not plain text: "H1", whose two bytes also read as the
\* message {9: 49}, and the single byte 0x01, which is not printable
OpaqueStringWrites == { <<1, <<72, 49>>>>, <<2, <<1>>>> }
MessageFields == {1}
FixedWrites == { <<1, Fixed32Type, <<1, 0, 0, 128>>>>,
                 <<2, Fixed64Type, <<2, 0, 0, 0, 0, 0, 0, 0>>>> }
\* tags of field 1 with wire kinds 3, 4, 6, 7; the invalid tag 0; a
\* continuation byte; the bare tags of a varint and of a bytes field
StrayBytes == {11, 12, 14, 15, 0, 128, 8, 10}

RECURSIVE NumWrites(_)
\* number of append operations that built a sequence of writes
NumWrites(ws) ==
    IF ws = <<>> THEN 0
    ELSE (IF ws[1].kind = "message" THEN 1 + NumWrites(ws[1].value) ELSE 1)
         + NumWrites(Drop(ws, 1))

CanAppend == NumWrites(writes) < MaxAppends

Appended(bytes, w) ==
    /\ CanAppend
    /\ rawBytes' = bytes
    /\ writes' = Append(writes, w)
    /\ rawJSON' = <<>>
    /\ UNCHANGED <<syncVars, goVars, uploadVars, managerVars, authVars>>

AppendIntField ==
    \E w \in IntWrites :
        Appended(appendIntField(rawBytes, w[1], w[2]), Write(w[1], "int", w[2]))

AppendStringField ==
    \E w \in StringWrites :
        Appended(appendStringField(rawBytes, w[1], w[2]), Write(w[1], "string", w[2]))

\* appendStringField on a caller's opaque string (a token, a key)
AppendOpaqueStringField ==
    \E w \in OpaqueStringWrites :
        Appended(appendStringField(rawBytes, w[1], w[2]), Write(w[1], "string", w[2]))

AppendEmptyMessage ==
    \E f \in MessageFields :
        Appended(appendEmptyMessage(rawBytes, f), Write(f, "message", <<>>))

\* the buffer built so far becomes the payload of a nested message field
AppendMessage ==
    \E f \in MessageFields :
        /\ CanAppend
        /\ rawBytes' = appendMessage(<<>>, f, rawBytes)
        /\ writes' = <<Write(f, "message", writes)>>
        /\ rawJSON' = <<>>
        /\ UNCHANGED <<syncVars, goVars, uploadVars, managerVars, authVars>>

AppendFixedField ==
    \E w \in FixedWrites :
        Appended(appendFixedField(rawBytes, w[1], w[2], w[3]), Write(w[1], "fixed", w[3]))

AppendStrayByte ==
    \E byte \in StrayBytes :
        Appended(Append(rawBytes, byte), Write(0, "stray", byte))

\* resp.ToRawJSON() on a response whose RawBytes is the buffer
CallToRawJSON ==
    /\ rawJSON = <<>>
    /\ rawJSON' = <<ToRawJSON(rawBytes)>>
    /\ UNCHANGED <<rawBytes, writes>>
    /\ UNCHANGED <<syncVars, goVars, uploadVars, managerVars, authVars>>

CodecInit ==
    /\ rawBytes = <<>>
    /\ writes = <<>>
    /\ rawJSON = <<>>

CodecNext ==
    \/ AppendIntField
    \/ AppendStringField
    \/ AppendEmptyMessage
    \/ AppendMessage
    \/ AppendFixedField
    \/ AppendStrayByte
    \/ CallToRawJSON

(***************************************************************************)
(* Sync calls made concurrently on one client.  Each goroutine runs an     *)
(* entry point and doLibraryRequest on its own locals; the client they     *)
(* share is only read (endpoint, headers, HTTP client).                    *)
(***************************************************************************)
Callers == 1..MaxCallers

\* bodies the transport answers concurrent calls with: pages that share
\* dedup keys, albums and tokens, and bytes that are no message
ConcurrentBodies == {
    ResponseBody(FALSE, <<>>),
    ResponseBody(TRUE, <<LibraryStateData("T1", "T1",
        <<MediaRecord("M1"), MediaRecord("M3")>>, <<[album_key |-> "A1"]>>,
        <<DeletionData(DeletionInfo(1, <<[media_key |-> "D1"]>>))>>)>>),
    ResponseBody(TRUE, <<LibraryStateData("T1", "",
        <<MediaRecord("M2"), MediaRecord("M9")>>, <<[album_key |-> "A1"]>>, <<>>)>>),
    ResponseBody(TRUE, <<LibraryStateData("", "",
        <<MediaRecord("M4")>>, <<[album_key |-> "A2"]>>, <<>>)>>) }

\* the locals of one call; delivered is the body the transport returned for
\* it, kept after the return
IdleCall == [pc |-> "idle", requestBody |-> <<>>, bodyBytes |-> <<>>,
             delivered |-> <<>>, resp |-> <<>>, err |-> ""]

GoStep(g, c) ==
    /\ calls' = [calls EXCEPT ![g] = c]
    /\ UNCHANGED <<syncVars, codecVars, uploadVars, managerVars, authVars>>

\* goroutine g calls an entry point
GoStartRequest(g) ==
    /\ calls[g].pc = "idle"
    /\ \E stateToken \in Tokens, pageToken \in Tokens :
         \E body \in { buildLibraryStateRequest(stateToken, ""),
                       buildLibraryPageInitRequest(pageToken),
                       buildLibraryPageRequest(pageToken, stateToken) } :
            GoStep(g, [IdleCall EXCEPT !.pc = "request", !.requestBody = <<body>>])

\* DoRequest of goroutine g returned an error
GoDoRequestFails(g) ==
    /\ calls[g].pc = "request"
    /\ \E e \in RequestErrors : GoStep(g, [IdleCall EXCEPT !.err = e])

\* DoRequest of goroutine g returned a body
GoDoRequestReturns(g) ==
    /\ calls[g].pc = "request"
    /\ \E body \in ConcurrentBodies :
          GoStep(g, [calls[g] EXCEPT !.pc = "decode", !.requestBody = <<>>,
                                     !.bodyBytes = <<body>>, !.delivered = <<body>>])

\* Mutant: the body is kept in a buffer of the client, which the goroutines
\* overwrite
GoDecodeResponse_SharedBuffer(g) ==
    /\ calls[g].pc = "decode"
    /\ \E h \in Callers :
          /\ calls[h].bodyBytes # <<>>
          /\ LET r == DecodeLibraryResponse(calls[h].bodyBytes[1])
             IN  GoStep(g, [calls[g] EXCEPT !.pc = "idle", !.bodyBytes = <<>>,
                                            !.resp = r.resp, !.err = r.err])

\* goroutine g decodes the body it received and returns
GoDecodeResponse(g) ==
    /\ calls[g].pc = "decode"
    /\ LET r == DecodeLibraryResponse(calls[g].bodyBytes[1])
       IN  GoStep(g, [calls[g] EXCEPT !.pc = "idle", !.bodyBytes = <<>>,
                                      !.resp = r.resp, !.err = r.err])

ConcurrentInit == calls = [g \in Callers |-> IdleCall]

ConcurrentNext ==
    \E g \in Callers :
        \/ GoStartRequest(g)
        \/ GoDoRequestFails(g)
        \/ GoDoRequestReturns(g)
        \/ GoDecodeResponse(g)

(***************************************************************************)
(* Channel-based Upload.  Every call of Upload makes an events channel and *)
(* starts a batch goroutine, which takes uploadMu, filters the paths,      *)
(* starts the workers and feeds them through workChan.  events has no      *)
(* buffer: a send is a position where the sender stays until the caller's  *)
(* range loop receives.                                                    *)
(***************************************************************************)
Batches == 1..MaxBatches
WorkerIDs == 1..MaxFiles
OptWorkers == {0, MaxFiles}       \* opts.Workers as the caller may set it

\* the statuses uploadFile sends, in the order of its stages
SendingStatuses == {"hashing", "checking", "uploading", "finalizing",
                    "completed", "skipped", "failed"}
FinalStatuses == {"completed", "skipped", "failed"}

\* uploadFile: what it sends next, once the event with this status is taken.
\* opts.ForceUpload and the outcomes of hashing, of the remote lookup, of
\* os.Stat and of the three upload requests are inputs.
NextStatuses(status) ==
    IF status = "hashing" THEN {"failed", "checking", "uploading"}
    ELSE IF status = "checking" THEN {"skipped", "failed", "uploading"}
    ELSE IF status = "uploading" THEN {"failed", "finalizing"}
    ELSE IF status = "finalizing" THEN {"failed", "completed"}
    ELSE {}

\* the locals of a batch goroutine and the channels it made
NotCalled ==
    [pc |-> "none",              \* position of the batch goroutine
     cancelled |-> FALSE,        \* ctx.Done() is closed
     files |-> 0,                \* len(files)
     sent |-> 0,                 \* paths put on workChan so far
     first |-> TRUE,
     queued |-> 0,               \* paths waiting in workChan
     workChanClosed |-> FALSE,
     wg |-> 0,                   \* workers that have not returned
     eventsClosed |-> FALSE]

BatchStep(b, u) ==
    /\ upload' = [upload EXCEPT ![b] = u]
    /\ UNCHANGED <<syncVars, codecVars, goVars, managerVars, authVars>>

\* Upload is called: the channel is made and returned, the goroutine starts
UploadCall(b) ==
    /\ upload[b].pc = "none"
    /\ b > 1 => upload[b - 1].pc # "none"
    /\ BatchStep(b, [upload[b] EXCEPT !.pc = "lock"])
    /\ UNCHANGED <<uploadMu, worker>>

\* the context of the call is cancelled, before or during the batch (a
\* context that is cancelled when Upload is called is one cancelled before the
\* goroutine's first step)
Cancel(b) ==
    /\ upload[b].pc \notin {"none", "done"}
    /\ ~ upload[b].cancelled
    /\ BatchStep(b, [upload[b] EXCEPT !.cancelled = TRUE])
    /\ UNCHANGED <<uploadMu, worker>>

\* g.uploadMu.Lock()
Lock(b) ==
    /\ upload[b].pc = "lock"
    /\ uploadMu = 0
    /\ uploadMu' = b
    /\ BatchStep(b, [upload[b] EXCEPT !.pc = "filter"])
    /\ UNCHANGED worker

\* filterGooglePhotosFiles, then the workers are started
Filter(b) ==
    /\ upload[b].pc = "filter"
    /\ \/ /\ BatchStep(b, [upload[b] EXCEPT !.pc = "sendFailed"])
          /\ UNCHANGED worker
       \/ /\ BatchStep(b, [upload[b] EXCEPT !.pc = "return"])
          /\ UNCHANGED worker
       \/ \E n \in 1..MaxFiles, optWorkers \in OptWorkers :
            LET workers == Min(Max(1, optWorkers), n)
            IN  /\ BatchStep(b, [upload[b] EXCEPT !.pc = "loop", !.files = n,
                                                  !.wg = workers])
                /\ worker' = [worker EXCEPT ![b] =
                                 [w \in WorkerIDs |-> IF w <= workers THEN "range" ELSE "off"]]
    /\ UNCHANGED uploadMu

\* Mutant: on a cancelled context the batch returns without waiting for its
\* workers
SendWork_ReturnsOnCancel(b) ==
    /\ upload[b].pc = "loop"
    /\ LET u == upload[b]
       IN  IF u.sent < u.files
           THEN IF u.cancelled
                THEN BatchStep(b, [u EXCEPT !.workChanClosed = TRUE, !.pc = "return"])
                ELSE IF u.first
                THEN BatchStep(b, [u EXCEPT !.pc = "sendTotal"])
                ELSE BatchStep(b, [u EXCEPT !.queued = @ + 1, !.sent = @ + 1])
           ELSE BatchStep(b, [u EXCEPT !.workChanClosed = TRUE, !.pc = "wait"])
    /\ UNCHANGED <<uploadMu, worker>>

\* one turn of the loop that sends the work, and what follows the loop
SendWork(b) ==
    /\ upload[b].pc = "loop"
    /\ LET u == upload[b]
       IN  IF u.sent < u.files
           THEN IF u.cancelled
                THEN BatchStep(b, [u EXCEPT !.workChanClosed = TRUE, !.pc = "wait"])
                ELSE IF u.first
                THEN BatchStep(b, [u EXCEPT !.pc = "sendTotal"])
                ELSE BatchStep(b, [u EXCEPT !.queued = @ + 1, !.sent = @ + 1])
           ELSE BatchStep(b, [u EXCEPT !.workChanClosed = TRUE, !.pc = "wait"])
    /\ UNCHANGED <<uploadMu, worker>>

\* the caller's range loop takes the event the batch goroutine is sending:
\* the filter error, after which the goroutine returns, or the total,
\* after which the first path is put on workChan
ReceiveFromBatch(b) ==
    /\ upload[b].pc \in {"sendFailed", "sendTotal"}
    /\ ~ upload[b].eventsClosed
    /\ IF upload[b].pc = "sendFailed"
       THEN BatchStep(b, [upload[b] EXCEPT !.pc = "return"])
       ELSE BatchStep(b, [upload[b] EXCEPT !.pc = "loop", !.first = FALSE,
                                           !.queued = @ + 1, !.sent = @ + 1])
    /\ UNCHANGED <<uploadMu, worker>>

\* wg.Wait()
Wait(b) ==
    /\ upload[b].pc = "wait"
    /\ upload[b].wg = 0
    /\ BatchStep(b, [upload[b] EXCEPT !.pc = "return"])
    /\ UNCHANGED <<uploadMu, worker>>

\* Mutant: the two defers are written in the other order
RunDeferred_UnlocksFirst(b) ==
    \/ /\ upload[b].pc = "return"
       /\ uploadMu' = 0
       /\ BatchStep(b, [upload[b] EXCEPT !.pc = "unlock"])
       /\ UNCHANGED worker
    \/ /\ upload[b].pc = "unlock"
       /\ BatchStep(b, [NotCalled EXCEPT !.pc = "done", !.eventsClosed = TRUE,
                                         !.cancelled = upload[b].cancelled])
       /\ worker' = [worker EXCEPT ![b] = [w \in WorkerIDs |-> "off"]]
       /\ UNCHANGED uploadMu

\* the deferred calls, last deferred first: close(events), then
\* g.uploadMu.Unlock(), with which the goroutine and its locals end
RunDeferred(b) ==
    \/ /\ upload[b].pc = "return"
       /\ BatchStep(b, [upload[b] EXCEPT !.pc = "unlock", !.eventsClosed = TRUE])
       /\ UNCHANGED <<uploadMu, worker>>
    \/ /\ upload[b].pc = "unlock"
       /\ uploadMu' = 0
       /\ BatchStep(b, [NotCalled EXCEPT !.pc = "done", !.eventsClosed = TRUE,
                                         !.cancelled = upload[b].cancelled])
       /\ worker' = [worker EXCEPT ![b] = [w \in WorkerIDs |-> "off"]]

\* a worker takes the next path from workChan, or returns: when the context
\* is cancelled, or when workChan is closed and empty
WorkerRange(b, w) ==
    /\ worker[b][w] = "range"
    /\ LET u == upload[b]
       IN  IF u.queued > 0
           THEN IF u.cancelled
                THEN /\ BatchStep(b, [u EXCEPT !.queued = @ - 1, !.wg = @ - 1])
                     /\ worker' = [worker EXCEPT ![b][w] = "exit"]
                ELSE /\ BatchStep(b, [u EXCEPT !.queued = @ - 1])
                     /\ worker' = [worker EXCEPT ![b][w] = "hashing"]
           ELSE /\ u.workChanClosed
                /\ BatchStep(b, [u EXCEPT !.wg = @ - 1])
                /\ worker' = [worker EXCEPT ![b][w] = "exit"]
    /\ UNCHANGED uploadMu

\* the caller's range loop takes the event a worker is sending from
\* uploadFile, and uploadFile goes on to its next send or returns
ReceiveFromWorker(b, w) ==
    /\ worker[b][w] \in SendingStatuses
    /\ ~ upload[b].eventsClosed
    /\ IF worker[b][w] \in FinalStatuses
       THEN worker' = [worker EXCEPT ![b][w] = "range"]
       ELSE \E status \in NextStatuses(worker[b][w]) :
               worker' = [worker EXCEPT ![b][w] = status]
    /\ UNCHANGED <<uploadMu, upload>>
    /\ UNCHANGED <<syncVars, codecVars, goVars, managerVars, authVars>>

UploadInit ==
    /\ uploadMu = 0
    /\ upload = [b \in Batches |-> NotCalled]
    /\ worker = [b \in Batches |-> [w \in WorkerIDs |-> "off"]]

\* the steps of the goroutines of a batch and of the loop that reads its events
UploadProgress(b) ==
    \/ Lock(b)
    \/ Filter(b)
    \/ SendWork(b)
    \/ ReceiveFromBatch(b)
    \/ Wait(b)
    \/ RunDeferred(b)
    \/ \E w \in WorkerIDs : WorkerRange(b, w) \/ ReceiveFromWorker(b, w)

UploadNext ==
    \E b \in Batches :
        \/ UploadCall(b)
        \/ Cancel(b)
        \/ UploadProgress(b)

(***************************************************************************)
(* The callback-based Upload of gogpm: one GooglePhotosAPI value, whose    *)
(* running, cancel and wg fields are read and written without a lock by    *)
(* the callers of Upload and Cancel and by the goroutines Upload starts    *)
(***************************************************************************)
Uploads == 1..MaxUploads

ManagerInit ==
    /\ running = FALSE
    /\ cancel = 0
    /\ closed = {}
    /\ wg = 0
    /\ batch = [u \in Uploads |->
                  [pc |-> "none", cancel |-> 0, files |-> 0, sent |-> 0,
                   workChan |-> 0, workChanClosed |-> FALSE, workers |-> 0,
                   results |-> 0, resultsClosed |-> FALSE, events |-> <<>>]]

\* Upload up to its return, statement by statement: the test of g.running,
\* the two assignments, and the filter with the start of the goroutines
Upload(u) ==
    /\ \/ /\ batch[u].pc = "none"
          /\ batch' = [batch EXCEPT ![u].pc = IF running THEN "rejected" ELSE "claim"]
          /\ UNCHANGED <<running, cancel, wg>>
       \/ /\ batch[u].pc = "claim"
          /\ running' = TRUE
          /\ cancel' = u
          /\ batch' = [batch EXCEPT ![u].pc = "filter"]
          /\ UNCHANGED wg
       \/ /\ batch[u].pc = "filter"
          /\ \/ /\ batch' = [batch EXCEPT ![u].pc = "done",
                                          ![u].events = <<"FileStatus", "uploadStop">>]
                /\ running' = FALSE
                /\ UNCHANGED wg
             \/ /\ batch' = [batch EXCEPT ![u].pc = "done",
                                          ![u].events = <<"uploadStop">>]
                /\ running' = FALSE
                /\ UNCHANGED wg
             \/ \E n \in 1..MaxFiles, threads \in 0..MaxFiles :
                  /\ batch' = [batch EXCEPT ![u].pc = "running",
                                            ![u].events = <<"uploadStart">>,
                                            ![u].files = n,
                                            ![u].cancel = cancel,
                                            ![u].workers = Min(Max(threads, 1), n)]
                  /\ wg' = wg + Min(Max(threads, 1), n)
                  /\ UNCHANGED running
          /\ UNCHANGED cancel
    /\ UNCHANGED closed
    /\ UNCHANGED <<syncVars, codecVars, goVars, uploadVars, authVars>>

\* Cancel: close(g.cancel), then g.cancel = nil
CancelUpload ==
    /\ cancel # 0
    /\ \/ /\ cancel \notin closed
          /\ closed' = closed \cup {cancel}
          /\ UNCHANGED cancel
       \/ /\ cancel \in closed
          /\ cancel' = 0
          /\ UNCHANGED closed
    /\ UNCHANGED <<running, wg, batch>>
    /\ UNCHANGED <<syncVars, codecVars, goVars, uploadVars, authVars>>

\* the goroutine that sends the paths: its select reads the field g.cancel
SendPaths(u) ==
    /\ batch[u].pc = "running"
    /\ ~batch[u].workChanClosed
    /\ \/ /\ batch[u].sent < batch[u].files
          /\ batch' = [batch EXCEPT ![u].sent = @ + 1, ![u].workChan = @ + 1]
       \/ /\ \/ batch[u].sent = batch[u].files
             \/ cancel \in closed
          /\ batch' = [batch EXCEPT ![u].workChanClosed = TRUE]
    /\ UNCHANGED <<running, cancel, closed, wg>>
    /\ UNCHANGED <<syncVars, codecVars, goVars, uploadVars, authVars>>

\* a worker of the batch: it was handed the value g.cancel had when it was
\* started, and calls wg.Done on g.wg when it returns
startUploadWorker(u) ==
    /\ batch[u].workers > 0
    /\ \/ /\ batch[u].workChan > 0
          /\ IF batch[u].cancel \in closed
             THEN /\ batch' = [batch EXCEPT ![u].workChan = @ - 1, ![u].workers = @ - 1]
                  /\ wg' = wg - 1
             ELSE /\ batch' = [batch EXCEPT ![u].workChan = @ - 1, ![u].results = @ + 1]
                  /\ UNCHANGED wg
       \/ /\ batch[u].workChan = 0
          /\ batch[u].workChanClosed
          /\ batch' = [batch EXCEPT ![u].workers = @ - 1]
          /\ wg' = wg - 1
    /\ UNCHANGED <<running, cancel, closed>>
    /\ UNCHANGED <<syncVars, codecVars, goVars, uploadVars, authVars>>

\* g.wg.Wait(); close(results)
WaitWorkers(u) ==
    /\ batch[u].pc = "running"
    /\ ~batch[u].resultsClosed
    /\ wg = 0
    /\ batch' = [batch EXCEPT ![u].resultsClosed = TRUE]
    /\ UNCHANGED <<running, cancel, closed, wg>>
    /\ UNCHANGED <<syncVars, codecVars, goVars, uploadVars, authVars>>

\* the goroutine that ranges over results, emits uploadStop and clears g.running
ProcessResults(u) ==
    /\ \/ /\ batch[u].pc = "running"
          /\ batch[u].results > 0
          /\ batch' = [batch EXCEPT ![u].results = @ - 1,
                                    ![u].events = Append(@, "FileStatus")]
          /\ UNCHANGED running
       \/ /\ batch[u].pc = "running"
          /\ batch[u].results = 0
          /\ batch[u].resultsClosed
          /\ batch' = [batch EXCEPT ![u].pc = "stopped",
                                    ![u].events = Append(@, "uploadStop")]
          /\ UNCHANGED running
       \/ /\ batch[u].pc = "stopped"
          /\ batch' = [batch EXCEPT ![u].pc = "done"]
          /\ running' = FALSE
    /\ UNCHANGED <<cancel, closed, wg>>
    /\ UNCHANGED <<syncVars, codecVars, goVars, uploadVars, authVars>>

ManagerNext ==
    \/ \E u \in Uploads : Upload(u)
    \/ CancelUpload
    \/ \E u \in Uploads : SendPaths(u)
    \/ \E u \in Uploads : startUploadWorker(u)
    \/ \E u \in Uploads : WaitWorkers(u)
    \/ \E u \in Uploads : ProcessResults(u)

(***************************************************************************)
(* Api.BearerToken called from several goroutines on one client            *)
(***************************************************************************)
\* strconv.ParseInt(s, 10, 64) on the bytes of s
ParseInt(s) ==
    LET RECURSIVE Value(_)
        Value(d) == IF d = <<>> THEN 0
                    ELSE 10 * Value(SubSeq(d, 1, Len(d) - 1)) + (d[Len(d)] - 48)
        digits == IF s # <<>> /\ s[1] \in {43, 45} THEN Tail(s) ELSE s
    IN  IF digits = <<>> \/ \E i \in 1..Len(digits) : digits[i] \notin 48..57
        THEN [v |-> 0, err |-> "invalid syntax"]
        ELSE [v |-> IF s[1] = 45 THEN 0 - Value(digits) ELSE Value(digits), err |-> ""]

\* refreshAuthToken from the answer of the auth endpoint on: either an error
\* of the request or the key=value lines of the body, already split
refreshAuthToken(answer) ==
    IF answer.err # ""
    THEN [resp |-> <<>>, err |-> answer.err]
    ELSE IF answer.parsed.Auth = ""
    THEN [resp |-> <<>>, err |-> "auth response missing Auth token"]
    ELSE IF answer.parsed.Expiry = <<>>
    THEN [resp |-> <<>>, err |-> "auth response missing Expiry"]
    ELSE [resp |-> answer.parsed, err |-> ""]

AuthInit ==
    /\ authMu = 0
    /\ authTokenCache = [Expiry |-> <<48>>, Auth |-> ""]
    /\ now = 0
    /\ bearer = [c \in Callers |-> [pc |-> "idle", token |-> "", err |-> ""]]

\* a new call that does not wait for a.authMu
AuthLock_NoMutex(c) ==
    /\ bearer[c].pc \in {"idle", "returned"}
    /\ authMu' = c
    /\ bearer' = [bearer EXCEPT ![c] = [pc |-> "locked", token |-> "", err |-> ""]]
    /\ UNCHANGED <<authTokenCache, now>>
    /\ UNCHANGED <<syncVars, codecVars, goVars, uploadVars, managerVars>>

\* a.authMu.Lock() of a new call
AuthLock(c) ==
    /\ bearer[c].pc \in {"idle", "returned"}
    /\ authMu = 0
    /\ authMu' = c
    /\ bearer' = [bearer EXCEPT ![c] = [pc |-> "locked", token |-> "", err |-> ""]]
    /\ UNCHANGED <<authTokenCache, now>>
    /\ UNCHANGED <<syncVars, codecVars, goVars, uploadVars, managerVars>>

\* BearerToken after the lock: the expiry test, the refresh and the return,
\* each return running the deferred a.authMu.Unlock()
BearerToken(c) ==
    /\ \/ /\ bearer[c].pc = "locked"
          /\ LET expiry == ParseInt(authTokenCache.Expiry)
             IN  IF expiry.err # ""
                 THEN /\ bearer' = [bearer EXCEPT ![c] =
                            [pc |-> "returned", token |-> "", err |-> "invalid expiry time"]]
                      /\ authMu' = 0
                 ELSE /\ bearer' = [bearer EXCEPT ![c].pc =
                            IF expiry.v <= now THEN "refresh" ELSE "token"]
                      /\ UNCHANGED authMu
          /\ UNCHANGED authTokenCache
       \/ /\ bearer[c].pc = "refresh"
          /\ \E answer \in
                 [err : {"auth request failed"}, parsed : {<<>>}] \cup
                 [err : {""},
                  parsed : [Expiry : {<<>>, <<48>>, <<50>>, <<57>>, <<120>>},
                            Auth : {"", "ya29.a", "ya29.b"}]] :
               LET refreshed == refreshAuthToken(answer)
               IN  IF refreshed.err # ""
                   THEN /\ bearer' = [bearer EXCEPT ![c] =
                              [pc |-> "returned", token |-> "",
                               err |-> "failed to get auth token"]]
                        /\ authMu' = 0
                        /\ UNCHANGED authTokenCache
                   ELSE /\ authTokenCache' = refreshed.resp
                        /\ bearer' = [bearer EXCEPT ![c].pc = "token"]
                        /\ UNCHANGED authMu
       \/ /\ bearer[c].pc = "token"
          /\ bearer' = [bearer EXCEPT ![c] =
                IF authTokenCache.Auth # ""
                THEN [pc |-> "returned", token |-> authTokenCache.Auth, err |-> ""]
                ELSE [pc |-> "returned", token |-> "",
                      err |-> "auth response does not contain bearer token"]]
          /\ authMu' = 0
          /\ UNCHANGED authTokenCache
    /\ UNCHANGED now
    /\ UNCHANGED <<syncVars, codecVars, goVars, uploadVars, managerVars>>

\* time.Now().Unix() moves on
Tick ==
    /\ now < MaxTime
    /\ now' = now + 1
    /\ UNCHANGED <<authMu, authTokenCache, bearer>>
    /\ UNCHANGED <<syncVars, codecVars, goVars, uploadVars, managerVars>>

AuthNext ==
    \/ \E c \in Callers : AuthLock(c)
    \/ \E c \in Callers : BearerToken(c)
    \/ Tick

SyncInit ==
    /\ pc = "idle"
    /\ call = <<>>
    /\ requestBody = <<>>
    /\ doRequests = 0
    /\ cmd = <<>>
    /\ bodyBytes = <<>>
    /\ resp = <<>>
    /\ err = ""

Init ==
    /\ SyncInit
    /\ CodecInit
    /\ ConcurrentInit
    /\ UploadInit
    /\ ManagerInit
    /\ AuthInit

Next ==
    \/ GetLibraryState
    \/ GetLibraryPageInit
    \/ GetLibraryPage
    \/ DoRequestFails
    \/ DoRequestReturns
    \/ DecodeResponse

Spec == Init /\ [][Next]_vars

\* the sync entry point answered with pages of linked records
LinkedNext ==
    \/ GetLibraryState
    \/ DoRequestReturnsLinkedPage
    \/ DecodeResponse

SpecLinked == Init /\ [][LinkedNext]_vars

\* the library command run again and again by its operator
CommandNext ==
    \/ libraryTestAction
    \/ DoRequestFails
    \/ DoRequestReturns
    \/ DecodeResponse

SpecCommand == Init /\ [][CommandNext]_vars

SpecCodec == Init /\ [][CodecNext]_vars

\* buffers built with the four encode helpers only
HelperNext ==
    \/ AppendIntField
    \/ AppendStringField
    \/ AppendOpaqueStringField
    \/ AppendEmptyMessage
    \/ AppendMessage
    \/ CallToRawJSON

SpecHelpers == Init /\ [][HelperNext]_vars

SpecConcurrent == Init /\ [][ConcurrentNext]_vars

\* Upload with its caller: a goroutine that can take a step is scheduled,
\* and the caller ranges over the events channel until it is closed
SpecUpload ==
    /\ Init
    /\ [][UploadNext]_vars
    /\ WF_vars(\E b \in Batches : UploadProgress(b))

\* the callback-based Upload with its callers: a goroutine that can take a
\* step is scheduled
SpecManager ==
    /\ Init
    /\ [][ManagerNext]_vars
    /\ WF_vars(\E u \in Uploads :
                 \/ batch[u].pc # "none" /\ Upload(u)
                 \/ SendPaths(u)
                 \/ startUploadWorker(u)
                 \/ WaitWorkers(u)
                 \/ ProcessResults(u))

SpecAuth == Init /\ [][AuthNext]_vars

(***************************************************************************)
(* Vocabulary of the properties: what a wire record says, read directly    *)
(* off the record, and the call whose response is being looked at.         *)
(***************************************************************************)
Returned == pc = "idle" /\ resp # <<>>
HasPage == Returned /\ resp[1].RawBytes.data # <<>>
WirePage == resp[1].RawBytes.data[1]

WireKey(rec) ==
    IF rec.media_key # "" THEN rec.media_key
    ELSE IF rec.key_info # <<>> THEN rec.key_info[1] ELSE ""
WireFileName(rec) == IF rec.metadata # <<>> THEN rec.metadata[1].file_name ELSE ""
WireDedup(rec) ==
    IF rec.metadata # <<>> /\ rec.metadata[1].dedup # <<>> THEN rec.metadata[1].dedup[1] ELSE ""
WireAlbum(rec) ==
    IF rec.metadata # <<>> /\ rec.metadata[1].collection # <<>>
    THEN rec.metadata[1].collection[1] ELSE ""
WireNonCanonical(rec) ==
    rec.metadata # <<>> /\ NonCanonicalProperty \in Range(rec.metadata[1].properties)
Parseable(rec) == WireKey(rec) # "" \/ WireFileName(rec) # ""

DedupKeys == {"H1", "H2"}

\* positions of the parseable canonical / non-canonical records with dedup_key k
CanonicalAt(media, k) ==
    {i \in DOMAIN media : Parseable(media[i]) /\ ~ WireNonCanonical(media[i])
                          /\ WireDedup(media[i]) = k}
CopiesAt(media, k) ==
    {i \in DOMAIN media : Parseable(media[i]) /\ WireNonCanonical(media[i])
                          /\ WireDedup(media[i]) = k}
ItemsAt(out, k) == {j \in DOMAIN out : out[j].DedupKey = k}

\* C1 (as amended): for every non-empty dedup_key of a page, media_items holds
\* one MediaItem per parseable canonical record with that key (so exactly one
\* when the page carries one canonical record for the key, none when it
\* carries none), no non-canonical record is a MediaItem, and each of those
\* MediaItems lists every parseable non-canonical record sharing the key, once,
\* in its Copies.
C1_CanonicalPerDedupKey ==
    HasPage =>
        LET media == WirePage.media_items
            out == resp[1].MediaItems
        IN  \A k \in DedupKeys :
              /\ Cardinality(ItemsAt(out, k)) = Cardinality(CanonicalAt(media, k))
              /\ \A i \in CopiesAt(media, k) :
                    ~ \E j \in DOMAIN out : out[j].MediaKey = WireKey(media[i])
              /\ \A j \in ItemsAt(out, k) :
                    /\ Len(out[j].Copies) = Cardinality(CopiesAt(media, k))
                    /\ \A i \in CopiesAt(media, k) :
                          \E c \in DOMAIN out[j].Copies :
                              out[j].Copies[c] = [MediaKey |-> WireKey(media[i]),
                                                  AlbumID |-> WireAlbum(media[i])]

C1_Witness ==
    /\ HasPage
    /\ \E k \in DedupKeys :
          /\ Cardinality(CanonicalAt(WirePage.media_items, k)) = 1
          /\ Cardinality(CopiesAt(WirePage.media_items, k)) >= 1
          /\ \E j \in DOMAIN resp[1].MediaItems :
                resp[1].MediaItems[j].DedupKey = k /\ Len(resp[1].MediaItems[j].Copies) >= 1

\* C1 as stated: a dedup_key carried by more than one parseable record gives
\* exactly one MediaItem, with all the other records in its Copies.
C1_Original ==
    HasPage =>
        LET media == WirePage.media_items
            out == resp[1].MediaItems
        IN  \A k \in DedupKeys :
              LET sharing == CanonicalAt(media, k) \cup CopiesAt(media, k)
              IN  Cardinality(sharing) > 1 =>
                    /\ Cardinality(ItemsAt(out, k)) = 1
                    /\ \A j \in ItemsAt(out, k) :
                          Len(out[j].Copies) = Cardinality(sharing) - 1

\* C2: in the response of every call, each album's item_count is the length
\* of its MediaItems list.
C2_ItemCountIsLength ==
    Returned =>
        \A a \in DOMAIN resp[1].Albums :
            resp[1].Albums[a].ItemCount = Len(resp[1].Albums[a].MediaItems)

C2_Witness ==
    /\ Returned
    /\ \E a, b \in DOMAIN resp[1].Albums :
          /\ a # b
          /\ resp[1].Albums[a].AlbumKey = resp[1].Albums[b].AlbumKey
          /\ resp[1].Albums[a].ItemCount >= 1
          /\ resp[1].Albums[b].ItemCount >= 1

\* C3 as stated: an album's item_count is the number of media records of the
\* page whose collection_id is the album's key, canonical or not.
C3_Original ==
    HasPage =>
        \A a \in DOMAIN resp[1].Albums :
            resp[1].Albums[a].ItemCount =
                Cardinality({i \in DOMAIN WirePage.media_items :
                                WireAlbum(WirePage.media_items[i]) = resp[1].Albums[a].AlbumKey})

\* C4: an album member with a non-empty original_media_key has a MediaItem of
\* the same response with that media_key and the member's dedup_key.
C4_MemberLinksToCanonical ==
    Returned =>
        \A a \in DOMAIN resp[1].Albums :
            \A m \in DOMAIN resp[1].Albums[a].MediaItems :
                LET member == resp[1].Albums[a].MediaItems[m]
                IN  member.OriginalMediaKey # "" =>
                        \E j \in DOMAIN resp[1].MediaItems :
                            /\ resp[1].MediaItems[j].MediaKey = member.OriginalMediaKey
                            /\ resp[1].MediaItems[j].DedupKey = member.DedupKey

C4_Witness ==
    /\ Returned
    /\ \E a \in DOMAIN resp[1].Albums :
          \E m \in DOMAIN resp[1].Albums[a].MediaItems :
              resp[1].Albums[a].MediaItems[m].OriginalMediaKey # ""

\* the AlbumMediaItem an unresolved copy must give
UnresolvedMember(rec) ==
    [MediaKey |-> WireKey(rec), OriginalMediaKey |-> "",
     FileName |-> WireFileName(rec), DedupKey |-> WireDedup(rec)]

\* parseable non-canonical records in an album whose dedup_key no canonical record carries
UnresolvedAt(media) ==
    {i \in DOMAIN media :
        /\ Parseable(media[i]) /\ WireNonCanonical(media[i]) /\ WireAlbum(media[i]) # ""
        /\ CanonicalAt(media, WireDedup(media[i])) = {}}

\* C5 (as amended): a parseable non-canonical record with an album_id and a
\* non-empty dedup_key that no canonical record of the page carries is kept
\* whenever the page has an album record for that album_id: every AlbumItem
\* emitted for the album holds an AlbumMediaItem with the record's media_key,
\* file_name and dedup_key and an empty original_media_key.
C5_UnresolvedCopyKept ==
    HasPage =>
        LET media == WirePage.media_items
        IN  \A i \in UnresolvedAt(media) :
              (/\ WireDedup(media[i]) # ""
               /\ \E r \in DOMAIN WirePage.albums :
                     WirePage.albums[r].album_key = WireAlbum(media[i]))
              => /\ \E a \in DOMAIN resp[1].Albums :
                       resp[1].Albums[a].AlbumKey = WireAlbum(media[i])
                 /\ \A a \in DOMAIN resp[1].Albums :
                       resp[1].Albums[a].AlbumKey = WireAlbum(media[i]) =>
                           UnresolvedMember(media[i]) \in Range(resp[1].Albums[a].MediaItems)

C5_Witness ==
    /\ HasPage
    /\ \E i \in UnresolvedAt(WirePage.media_items) :
          \E a \in DOMAIN resp[1].Albums :
              /\ resp[1].Albums[a].AlbumKey = WireAlbum(WirePage.media_items[i])
              /\ UnresolvedMember(WirePage.media_items[i]) \in Range(resp[1].Albums[a].MediaItems)

\* C5 as stated: the response holds an AlbumMediaItem for every such record.
C5_Original ==
    HasPage =>
        LET media == WirePage.media_items
        IN  \A i \in UnresolvedAt(media) :
              \E a \in DOMAIN resp[1].Albums :
                  UnresolvedMember(media[i]) \in Range(resp[1].Albums[a].MediaItems)

\* the page without its unparseable media records
WithoutUnparseable(page) ==
    [page EXCEPT !.media_items = SelectSeq(page.media_items, Parseable)]

\* the lists and tokens of a response
Content(r) == <<r.StateToken, r.NextPageToken, r.MediaItems, r.Albums, r.DeletedMediaKeys>>

\* C6: a record with no media_key, no key_info key and no file_name raises no
\* error and leaves no trace: the response is the one the page gives with
\* the unparseable records taken out, and no emitted MediaItem or album
\* member is the empty item.
C6_UnparseableSkipped ==
    HasPage =>
        /\ err = ""
        /\ Content(resp[1]) =
              Content(parseFromProto(resp[1].RawBytes, WithoutUnparseable(WirePage)))
        /\ \A j \in DOMAIN resp[1].MediaItems :
              resp[1].MediaItems[j].MediaKey # "" \/ resp[1].MediaItems[j].FileName # ""
        /\ \A a \in DOMAIN resp[1].Albums :
              \A m \in DOMAIN resp[1].Albums[a].MediaItems :
                  \/ resp[1].Albums[a].MediaItems[m].MediaKey # ""
                  \/ resp[1].Albums[a].MediaItems[m].FileName # ""

C6_Witness ==
    /\ HasPage
    /\ Len(WirePage.media_items) >= 3
    /\ ~ Parseable(WirePage.media_items[1])
    /\ \E j \in DOMAIN resp[1].MediaItems : Len(resp[1].MediaItems[j].Copies) >= 1

IsSingleMediaDeletion(d) ==
    d.info # <<>> /\ d.info[1].deletion_type = SingleMediaDeleted
CarriesMedia(d) == d.info # <<>> /\ d.info[1].media # <<>>
SurfacedDeletion(d) == IsSingleMediaDeletion(d) /\ CarriesMedia(d)

\* C7 (as amended): deleted_media_keys holds exactly one entry, the media_key,
\* for each deletion record of type 1 that carries a media sub-message, in
\* wire order, and nothing for any other deletion record; no deletion record
\* makes the call fail.
C7_OnlySingleMediaDeletions ==
    HasPage =>
        LET surfaced == SelectSeq(WirePage.deletions, SurfacedDeletion)
        IN  /\ err = ""
            /\ resp[1].DeletedMediaKeys =
                  [i \in 1..Len(surfaced) |-> surfaced[i].info[1].media[1].media_key]

C7_Witness ==
    /\ HasPage
    /\ \E i, j \in DOMAIN WirePage.deletions :
          /\ SurfacedDeletion(WirePage.deletions[i])
          /\ ~ IsSingleMediaDeletion(WirePage.deletions[j])
          /\ CarriesMedia(WirePage.deletions[j])
    /\ Len(resp[1].DeletedMediaKeys) = 1

\* C7 as stated: one entry for each deletion record of type 1.
C7_Original ==
    HasPage =>
        Len(resp[1].DeletedMediaKeys) =
            Len(SelectSeq(WirePage.deletions, IsSingleMediaDeletion))

\* C8 as stated: a body that fails to decode never gives a successful response.
C8_Original ==
    ~ (/\ pc = "idle"
       /\ err = ""
       /\ resp # <<>>
       /\ ~ resp[1].RawBytes.wellformed)

(***************************************************************************)
(* The wire grammar, stated without decoding: a buffer is well formed at   *)
(* its own nesting level when it splits into fields, each a tag with a     *)
(* valid field number and a supported wire kind followed by a complete     *)
(* payload.                                                                *)
(***************************************************************************)
IsVarint(c) ==
    /\ Len(c) \in 1..MaxVarintLen
    /\ \A i \in 1..(Len(c) - 1) : c[i] >= 128
    /\ c[Len(c)] < 128
    /\ Len(c) = MaxVarintLen => c[Len(c)] <= 1

\* the value of a varint of at most two significant digits, 16384 above that
SmallVarint(c) ==
    LET sig == {i \in DOMAIN c : c[i] % 128 # 0}
    IN  IF \E i \in sig : i > 2 THEN 16384
        ELSE (c[1] % 128) + (IF Len(c) >= 2 THEN 128 * (c[2] % 128) ELSE 0)

\* the tag's field number is in 1..MaxInt32
IsTag(c) ==
    /\ IsVarint(c)
    /\ \A i \in DOMAIN c : i > 5 => c[i] % 128 = 0
    /\ Len(c) >= 5 => c[5] % 128 < 64
    /\ \E i \in DOMAIN c : IF i = 1 THEN (c[i] % 128) >= 8 ELSE c[i] % 128 # 0

IsPayload(wireType, c) ==
    \/ wireType = VarintType /\ IsVarint(c)
    \/ wireType = Fixed64Type /\ Len(c) = 8
    \/ wireType = Fixed32Type /\ Len(c) = 4
    \/ /\ wireType = BytesType
       /\ \E l \in 1..Len(c) :
             /\ IsVarint(SubSeq(c, 1, l))
             /\ SmallVarint(SubSeq(c, 1, l)) = Len(c) - l

IsField(c) ==
    \E t \in 1..Len(c) :
        /\ IsTag(SubSeq(c, 1, t))
        /\ IsPayload(c[1] % 8, Drop(c, t))

RECURSIVE WellFormed(_)
WellFormed(data) ==
    \/ data = <<>>
    \/ \E n \in 1..Len(data) :
          IsField(SubSeq(data, 1, n)) /\ WellFormed(Drop(data, n))

RECURSIVE EncodeWrites(_)
\* the buffer a sequence of writes builds
EncodeWrites(ws) ==
    IF ws = <<>> THEN <<>>
    ELSE LET w == ws[Len(ws)]
             b == EncodeWrites(SubSeq(ws, 1, Len(ws) - 1))
         IN  IF w.kind = "int" THEN appendIntField(b, w.num, w.value)
             ELSE IF w.kind = "string" THEN appendStringField(b, w.num, w.value)
             ELSE IF w.kind = "message" THEN b \o appendMessage(<<>>, w.num, EncodeWrites(w.value))
             ELSE IF w.kind = "fixed"
                  THEN appendFixedField(b, w.num, IF Len(w.value) = 4 THEN Fixed32Type
                                                  ELSE Fixed64Type, w.value)
             ELSE Append(b, w.value)

Decoded == rawJSON # <<>>
NoStray(ws) == \A i \in DOMAIN ws : ws[i].kind # "stray"
OccurrencesOf(ws, f) == SelectSeq(ws, LAMBDA w : w.num = f)

\* the JSON node a single write decodes to when it is the only field
AloneJSON(w) == MarshalJSON(parseProtobufMessage(EncodeWrites(<<w>>)).fields[w.num])

\* rawBytes is what the writes encode
BufferIsEncodedWrites == rawBytes = EncodeWrites(writes)

\* C9: when the buffer is not well formed at its own level (a malformed tag,
\* a truncated varint or length, a wire kind other than varint, fixed64,
\* bytes or fixed32), ToRawJSON returns an error and no tree at all, whatever
\* was decoded before the fault.
C9_FaultFailsDecode ==
    (Decoded /\ ~ WellFormed(rawBytes)) =>
        /\ ~ rawJSON[1].ok
        /\ rawJSON[1].json = <<>>
        /\ ~ parseProtobufMessage(rawBytes).ok
        /\ parseProtobufMessage(rawBytes).fields = EmptyMap

C9_Witness ==
    /\ Decoded
    /\ ~ rawJSON[1].ok
    /\ Len(writes) >= 3
    /\ writes[1].kind = "int"
    /\ writes[2].kind = "stray" /\ writes[2].value \in {11, 12, 14, 15}
    /\ writes[3].kind = "int"

\* C10: when the writes of one nesting level are all complete fields, a field
\* number written k >= 2 times decodes to a list of exactly k values, the
\* i-th being what the i-th occurrence decodes to on its own; a field number
\* written once decodes to that value itself.
C10_RepeatedFieldsKeptInOrder ==
    (Decoded /\ NoStray(writes)) =>
        /\ rawJSON[1].ok
        /\ LET members == rawJSON[1].json[1].members
           IN  /\ DOMAIN members = {writes[i].num : i \in DOMAIN writes}
               /\ \A f \in DOMAIN members :
                     LET occ == OccurrencesOf(writes, f)
                     IN  IF Len(occ) >= 2
                         THEN members[f] = [json |-> "array",
                                            items |-> [i \in 1..Len(occ) |-> AloneJSON(occ[i])]]
                         ELSE members[f] = AloneJSON(occ[1])

C10_Witness ==
    /\ Decoded
    /\ NoStray(writes)
    /\ Len(writes) >= 3
    /\ \A i \in DOMAIN writes : writes[i].num = 1
    /\ \E i, j, k \in DOMAIN writes :
          /\ writes[i].kind = "int"
          /\ writes[j].kind = "string"
          /\ writes[k].kind = "message" /\ writes[k].value # <<>>
    /\ rawJSON[1].ok
    /\ Len(rawJSON[1].json[1].members[1].items) = Len(writes)

(***************************************************************************)
(* Round trip of a tree of writes through the encode helpers and the       *)
(* generic decoder.                                                        *)
(***************************************************************************)
FieldNumbers(ws) == {ws[i].num : i \in DOMAIN ws}

JSONNumber(v) == [json |-> "number", digits |-> Digits(v)]
JSONString(bytes) == [json |-> "string", bytes |-> bytes]

RECURSIVE ExpectedMembers(_)
\* the tree the writes describe: integers, strings and nested messages as
\* written, a field number written several times as the list of its values
ExpectedMembers(ws) ==
    LET Leaf(w) ==
            IF w.kind = "int" THEN JSONNumber(w.value)
            ELSE IF w.kind = "string" THEN JSONString(w.value)
            ELSE [json |-> "object", members |-> ExpectedMembers(w.value)]
    IN  [f \in FieldNumbers(ws) |->
            LET occ == OccurrencesOf(ws, f)
            IN  IF Len(occ) >= 2
                THEN [json |-> "array", items |-> [i \in 1..Len(occ) |-> Leaf(occ[i])]]
                ELSE Leaf(occ[1])]

\* the bytes of a string are themselves a non-empty sequence of complete fields
ReadsAsMessage(bytes) == bytes # <<>> /\ WellFormed(bytes)

RECURSIVE Recovers(_, _)
\* node is what the write w is recovered as, the heuristic for
\* length-delimited payloads taken into account
Recovers(node, w) ==
    IF w.kind = "int" THEN node = JSONNumber(w.value)
    ELSE IF w.kind = "string"
         THEN IF ReadsAsMessage(w.value) THEN node.json = "object"
              ELSE IF isPrintable(w.value) THEN node = JSONString(w.value)
              ELSE node = JSONString(BytesMarker(Len(w.value)))
    ELSE IF w.value = <<>> THEN node = JSONString(<<>>)
    ELSE /\ node.json = "object"
         /\ DOMAIN node.members = FieldNumbers(w.value)
         /\ \A f \in FieldNumbers(w.value) :
               LET occ == OccurrencesOf(w.value, f)
                   m == node.members[f]
               IN  IF Len(occ) >= 2
                   THEN /\ m.json = "array"
                        /\ Len(m.items) = Len(occ)
                        /\ \A i \in 1..Len(occ) : Recovers(m.items[i], occ[i])
                   ELSE Recovers(m, occ[1])

\* C11 (as amended): decoding a buffer built with the four encode helpers
\* succeeds and recovers the field numbers, the nesting and the order per
\* field number (a field number written k >= 2 times is a list of k values in
\* write order); every integer leaf is recovered as that integer, every
\* nested message with at least one field as a nested message with the same
\* fields, an empty message as the empty string, a string whose bytes read as
\* a non-empty message as a nested message, any other printable string as
\* that string, and any other string as the marker bytes[n] of its length.
C11_RoundTripUpToHeuristic ==
    (Decoded /\ writes # <<>>) =>
        /\ rawJSON[1].ok
        /\ Recovers(rawJSON[1].json[1], Write(0, "message", writes))

C11_Witness ==
    /\ Decoded
    /\ rawJSON[1].ok
    /\ Len(writes) = 3
    /\ writes[1].kind = "message" /\ Len(writes[1].value) = 1
    /\ writes[1].value[1].kind = "int"
    /\ writes[2].kind = "message" /\ writes[2].value = <<>>
    /\ writes[3].kind = "string" /\ ReadsAsMessage(writes[3].value)
    /\ writes[3].num = writes[1].num

\* C11 as stated: the decoded tree is the tree of the writes, every string
\* leaf a string and every nested message, the empty one included, a nested
\* message with the same fields.
C11_Original ==
    Decoded =>
        /\ rawJSON[1].ok
        /\ rawJSON[1].json[1] = [json |-> "object", members |-> ExpectedMembers(writes)]

(***************************************************************************)
(* The request in flight, read off its writes                              *)
(***************************************************************************)
InFlight == pc = "request"

\* the writes of the body block (field 1 of the request)
BodyBlock(req) == req[1].value
BodyFields(req, num) == SelectSeq(BodyBlock(req), LAMBDA w : w.num = num)
PageTokenFields(req) == BodyFields(req, 4)
StateTokenFields(req) == BodyFields(req, 6)

\* the request without its two token fields
WithoutTokens(req) ==
    <<MessageWrite(1, SelectSeq(BodyBlock(req), LAMBDA w : w.num \notin {4, 6}))>>
    \o SubSeq(req, 2, Len(req))

\* C12 (as amended): the request of Sync(stateToken) never contains the
\* page_token field (body field 4) and contains the state_token field (body
\* field 6) exactly when the token supplied is non-empty; the request of
\* PageInit(pageToken) never contains state_token and contains page_token
\* exactly when the page token supplied is non-empty; the request of
\* PageContinue(pageToken, stateToken) contains each of the two fields exactly
\* when the corresponding argument is non-empty; a field that is present
\* occurs once and carries the caller's string unmodified.
C12_TokenFieldsPerEntryPoint ==
    InFlight =>
        LET c == call[1]
            pt == PageTokenFields(requestBody[1])
            st == StateTokenFields(requestBody[1])
        IN  /\ c.entry = "GetLibraryState" =>
                  pt = <<>> /\ (st # <<>> <=> c.stateToken # "")
            /\ c.entry = "GetLibraryPageInit" =>
                  st = <<>> /\ (pt # <<>> <=> c.pageToken # "")
            /\ c.entry = "GetLibraryPage" =>
                  (pt # <<>> <=> c.pageToken # "") /\ (st # <<>> <=> c.stateToken # "")
            /\ pt # <<>> => pt = <<StringWrite(4, TokenBytes(c.pageToken))>>
            /\ st # <<>> => st = <<StringWrite(6, TokenBytes(c.stateToken))>>

C12_Witness ==
    /\ InFlight
    /\ call[1].entry = "GetLibraryPage"
    /\ call[1].pageToken # "" /\ call[1].stateToken # ""
    /\ Len(PageTokenFields(requestBody[1])) = 1
    /\ Len(StateTokenFields(requestBody[1])) = 1

\* C12 as stated: for all argument values, Sync never sends page_token and
\* sends state_token exactly for a non-empty token, PageInit sends page_token
\* and never state_token, PageContinue sends both.
C12_Original ==
    InFlight =>
        LET c == call[1]
            pt == PageTokenFields(requestBody[1])
            st == StateTokenFields(requestBody[1])
        IN  /\ c.entry = "GetLibraryState" =>
                  pt = <<>> /\ (st # <<>> <=> c.stateToken # "")
            /\ c.entry = "GetLibraryPageInit" => st = <<>> /\ pt # <<>>
            /\ c.entry = "GetLibraryPage" => pt # <<>> /\ st # <<>>
            /\ pt # <<>> => pt = <<StringWrite(4, TokenBytes(c.pageToken))>>
            /\ st # <<>> => st = <<StringWrite(6, TokenBytes(c.stateToken))>>

\* C13: the request of any call, its page_token and state_token fields
\* removed, is the request of any other call of any entry point with any
\* tokens, those fields removed; the item-type filter (body field 11) is
\* always the three values 1, 2, 6 in that order.
C13_OnlyTokensVary ==
    InFlight =>
        /\ \A stateToken \in Tokens, pageToken \in Tokens :
              /\ WithoutTokens(requestBody[1])
                    = WithoutTokens(buildLibraryStateRequest(stateToken, pageToken))
              /\ WithoutTokens(requestBody[1])
                    = WithoutTokens(buildLibraryPageInitRequest(pageToken))
              /\ WithoutTokens(requestBody[1])
                    = WithoutTokens(buildLibraryPageRequest(pageToken, stateToken))
        /\ BodyFields(requestBody[1], 11) = <<IntWrite(11, 1), IntWrite(11, 2), IntWrite(11, 6)>>

C13_Witness ==
    /\ InFlight
    /\ call[1].entry = "GetLibraryState"
    /\ call[1].stateToken = ""
    /\ Len(BodyBlock(requestBody[1])) + 2
          = Len(BodyBlock(buildLibraryPageRequest("T1", "T1")))

\* C14: a call hands exactly one request to DoRequest; when DoRequest fails
\* (bearer token, network, status outside 2xx, body) the call returns the
\* error and no response, without a second request.
C14_OneRequestNoRetry ==
    /\ doRequests <= 1
    /\ pc # "idle" => doRequests = 1
    /\ (pc = "idle" /\ (resp # <<>> \/ err # "")) => doRequests = 1
    /\ (pc = "idle" /\ err # "") => (err \in RequestErrors /\ resp = <<>>)

C14_Witness ==
    /\ pc = "idle"
    /\ err = "library request failed: request failed with status"
    /\ resp = <<>>
    /\ doRequests = 1

\* C17: media_items is, in wire order, the parseable records of the page
\* whose property list does not contain property 27; a record whose property
\* list contains 27 is never an element of media_items, whatever its
\* dedup_key, its album and its position.
C17_CanonicalOnly ==
    HasPage =>
        LET canonical == SelectSeq(WirePage.media_items,
                                   LAMBDA rec : Parseable(rec) /\ ~ WireNonCanonical(rec))
            out == resp[1].MediaItems
        IN  /\ Len(out) = Len(canonical)
            /\ \A j \in DOMAIN out :
                  /\ out[j].MediaKey = WireKey(canonical[j])
                  /\ out[j].FileName = WireFileName(canonical[j])

C17_Witness ==
    /\ HasPage
    /\ Len(WirePage.media_items) = 3
    /\ WireNonCanonical(WirePage.media_items[1])
    /\ Range(WirePage.media_items[1].metadata[1].properties) = {5, 27}
    /\ ~ WireNonCanonical(WirePage.media_items[2])
    /\ WireNonCanonical(WirePage.media_items[3])
    /\ WireDedup(WirePage.media_items[3]) = ""
    /\ Len(resp[1].MediaItems) = 1

(***************************************************************************)
(* Pagination as the library command drives it                             *)
(***************************************************************************)
\* the call in flight is a PageContinue
Continuing == InFlight /\ call[1].entry = "GetLibraryPage"

\* C15 (as amended): the library command, the only driver of the sync entry
\* points in this client, makes one call per invocation with the tokens its
\* operator passes as flags: it issues PageContinue exactly when both the
\* page-token and the state-token flag are non-empty, and the request then
\* carries those two strings unmodified, so that no PageContinue is issued
\* with an empty state_token or page_token.  That the two flags are the
\* next_page_token and state_token of the preceding response is not checked.
C15_ContinueWithBothFlags ==
    (InFlight /\ cmd # <<>>) =>
        LET c == call[1]
            flags == cmd[1]
        IN  /\ c.entry = "GetLibraryPage" <=> (flags.stateToken # "" /\ flags.pageToken # "")
            /\ c.entry = "GetLibraryPage" =>
                  /\ c.stateToken = flags.stateToken
                  /\ c.pageToken = flags.pageToken
                  /\ StateTokenFields(requestBody[1])
                        = <<StringWrite(6, TokenBytes(flags.stateToken))>>
                  /\ PageTokenFields(requestBody[1])
                        = <<StringWrite(4, TokenBytes(flags.pageToken))>>

C15_Witness ==
    /\ Continuing
    /\ cmd # <<>>
    /\ cmd[1].printed # <<>>
    /\ cmd[1].printed[1].StateToken = call[1].stateToken
    /\ cmd[1].printed[1].NextPageToken = call[1].pageToken

\* C15 as stated: every PageContinue is made with the next_page_token and the
\* state_token of the immediately preceding response of the session, never
\* with an empty state_token.
C15_Original ==
    (Continuing /\ cmd # <<>>) =>
        /\ cmd[1].printed # <<>>
        /\ call[1].pageToken = cmd[1].printed[1].NextPageToken
        /\ call[1].stateToken = cmd[1].printed[1].StateToken
        /\ call[1].stateToken # ""

\* C16 (as amended): an invocation of the library command issues exactly one
\* sync request and ends with the response to it, whether the response's
\* next_page_token is empty or not; it never fetches the next page itself.
C16_OneRequestPerInvocation ==
    /\ pc # "idle" => (cmd # <<>> /\ doRequests = 1)
    /\ Returned => (cmd = <<>> /\ doRequests = 1)

C16_Witness ==
    /\ Returned
    /\ resp[1].NextPageToken # ""
    /\ cmd = <<>>
    /\ doRequests = 1

\* C16 as stated: a session is not continued after a response whose
\* next_page_token is empty, and it is not finished while the last response
\* carries a non-empty next_page_token.
C16_Original ==
    /\ (Continuing /\ cmd # <<>> /\ cmd[1].printed # <<>>) =>
          cmd[1].printed[1].NextPageToken # ""
    /\ (Returned /\ resp[1].NextPageToken # "") => cmd # <<>>

\* a concurrent call that has returned a response
GoReturned(g) == calls[g].pc = "idle" /\ calls[g].resp # <<>>

\* the page in the bytes the transport returned to g (none when they are no
\* message)
GoPageOf(g) ==
    LET body == calls[g].delivered[1]
    IN  IF body.wellformed /\ body.data # <<>> THEN body.data ELSE <<>>

\* the media keys, album keys, deleted keys and tokens a page carries
KeysOnWire(page) ==
    IF page = <<>> THEN {""}
    ELSE {WireKey(page[1].media_items[i]) : i \in DOMAIN page[1].media_items}
         \cup {page[1].albums[i].album_key : i \in DOMAIN page[1].albums}
         \cup UNION {{d.info[1].media[m].media_key : m \in DOMAIN d.info[1].media} :
                        d \in {x \in Range(page[1].deletions) : x.info # <<>>}}
         \cup {page[1].state_token, page[1].next_page_token, ""}

\* the media keys, album keys, deleted keys and tokens a response names
KeysInResponse(r) ==
    {r.MediaItems[i].MediaKey : i \in DOMAIN r.MediaItems}
    \cup UNION {{r.MediaItems[i].Copies[c].MediaKey : c \in DOMAIN r.MediaItems[i].Copies} :
                   i \in DOMAIN r.MediaItems}
    \cup {r.Albums[a].AlbumKey : a \in DOMAIN r.Albums}
    \cup UNION {UNION {{r.Albums[a].MediaItems[m].MediaKey,
                        r.Albums[a].MediaItems[m].OriginalMediaKey} :
                          m \in DOMAIN r.Albums[a].MediaItems} :
                   a \in DOMAIN r.Albums}
    \cup Range(r.DeletedMediaKeys)
    \cup {r.StateToken, r.NextPageToken}

\* C18: when calls of the sync entry points run concurrently on one client,
\* in any interleaving, the response a call returns is the decoding of the
\* bytes the transport returned for that call and of nothing else: every media
\* item, copy, album, album member, deletion and token in it comes from those
\* bytes, its tokens are theirs, and two calls that were returned the same
\* bytes return equal responses.
C18_CallsAreIsolated ==
    \A g \in Callers :
        GoReturned(g) =>
            LET r == calls[g].resp[1]
                page == GoPageOf(g)
            IN  /\ r = DecodeLibraryResponse(calls[g].delivered[1]).resp[1]
                /\ r.RawBytes = calls[g].delivered[1]
                /\ KeysInResponse(r) \subseteq KeysOnWire(page)
                /\ page # <<>> =>
                      /\ r.StateToken = page[1].state_token
                      /\ r.NextPageToken = page[1].next_page_token
                /\ \A h \in Callers :
                      (GoReturned(h) /\ calls[h].delivered = calls[g].delivered)
                          => calls[h].resp = calls[g].resp

\* two calls in flight together, returned different pages that share a dedup
\* key, an album and a token; both have returned, the second while the
\* first's response was already there
C18_Witness ==
    \E g, h \in Callers :
        /\ g # h
        /\ GoReturned(g) /\ GoReturned(h)
        /\ GoPageOf(g) # <<>> /\ GoPageOf(h) # <<>>
        /\ calls[g].delivered # calls[h].delivered
        /\ calls[g].resp[1].MediaItems # <<>>
        /\ calls[h].resp[1].MediaItems # <<>>
        /\ \E a \in DOMAIN calls[g].resp[1].Albums : calls[g].resp[1].Albums[a].MediaItems # <<>>
        /\ calls[g].resp[1].DeletedMediaKeys # <<>>
        /\ calls[g].resp[1].StateToken = calls[h].resp[1].StateToken

\* the batch goroutine of call b is at a send on events
BatchSending(b) == upload[b].pc \in {"sendFailed", "sendTotal"}

\* worker w of batch b has not returned
WorkerRunning(b, w) == worker[b][w] \notin {"off", "exit"}

\* some goroutine of call b is still to run code that may send on events
MaySend(b) ==
    \/ upload[b].pc \in {"lock", "filter", "sendFailed", "loop", "sendTotal", "wait"}
    \/ \E w \in WorkerIDs : WorkerRunning(b, w)

Processing(b) ==
    upload[b].pc \in {"filter", "sendFailed", "loop", "sendTotal", "wait", "return"}

CopyRecords(media, k) ==
    SelectSeq(media, LAMBDA rec : Parseable(rec) /\ WireNonCanonical(rec)
                                  /\ WireDedup(rec) = k)

\* the {media_key, album_id} pair of a record
WireCopy(rec) == [MediaKey |-> WireKey(rec), AlbumID |-> WireAlbum(rec)]

\* C21: the Copies list of every emitted MediaItem with a non-empty dedup_key
\* is the sequence of {media_key, album_id} pairs of all parseable
\* non-canonical records of the page with that dedup_key, one entry per
\* record, in wire order; a page of one canonical and one non-canonical
\* record sharing a key yields one MediaItem with one copy.
C21_CopiesAreTheWireSequence ==
    HasPage =>
        LET media == WirePage.media_items
            out == resp[1].MediaItems
        IN  /\ \A j \in DOMAIN out :
                  out[j].DedupKey # "" =>
                      LET recs == CopyRecords(media, out[j].DedupKey)
                      IN  out[j].Copies = [c \in DOMAIN recs |-> WireCopy(recs[c])]
            /\ \A k \in DedupKeys :
                  (/\ Len(media) = 2
                   /\ Cardinality(CanonicalAt(media, k)) = 1
                   /\ Cardinality(CopiesAt(media, k)) = 1)
                      => /\ Len(out) = 1
                         /\ Len(out[1].Copies) = 1

\* a canonical record with two different copies, the copies in either order
C21_Witness ==
    /\ HasPage
    /\ \E j \in DOMAIN resp[1].MediaItems :
          /\ Len(resp[1].MediaItems[j].Copies) = 2
          /\ resp[1].MediaItems[j].Copies[1].MediaKey = "M9"
          /\ resp[1].MediaItems[j].Copies[2].MediaKey = "M3"

\* the least and the greatest element of a non-empty set of positions
First(S) == CHOOSE i \in S : \A j \in S : i <= j
Last(S) == CHOOSE i \in S : \A j \in S : j <= i

\* the members of all emitted albums that carry dedup_key k
MembersWith(r, k) ==
    {x \in UNION {Range(r.Albums[a].MediaItems) : a \in DOMAIN r.Albums} :
        x.DedupKey = k}

\* C22 (as amended): when several canonical records of one page share a
\* dedup_key, the dedup_key index points to the last of them in wire order, so
\* the original_media_key of every AlbumMediaItem with that dedup_key is the
\* media_key of the last such canonical record.
C22_IndexPointsToLastCanonical ==
    HasPage =>
        \A k \in DedupKeys :
            LET canonical == CanonicalAt(WirePage.media_items, k)
            IN  canonical # {} =>
                  \A x \in MembersWith(resp[1], k) :
                      x.OriginalMediaKey = WireKey(WirePage.media_items[Last(canonical)])

\* two canonical records with one dedup_key and different media keys, and an
\* album member with that dedup_key
C22_Witness ==
    /\ HasPage
    /\ \E k \in DedupKeys :
          LET canonical == CanonicalAt(WirePage.media_items, k)
          IN  /\ Cardinality(canonical) >= 2
              /\ WireKey(WirePage.media_items[First(canonical)])
                    # WireKey(WirePage.media_items[Last(canonical)])
              /\ MembersWith(resp[1], k) # {}

\* C22 as stated: the original_media_key is the media_key of the first
\* canonical record with the dedup_key.
C22_Original ==
    HasPage =>
        \A k \in DedupKeys :
            LET canonical == CanonicalAt(WirePage.media_items, k)
            IN  canonical # {} =>
                  \A x \in MembersWith(resp[1], k) :
                      x.OriginalMediaKey = WireKey(WirePage.media_items[First(canonical)])

\* the permutations of 1..n, for every length a page of linked records has
Perms ==
    [n \in 0..MaxLinked |->
        {f \in [1..n -> 1..n] : \A a, b \in 1..n : f[a] = f[b] => a = b}]

\* a sequence as a bag: its elements without their order
BagOf(seq) == [x \in Range(seq) |-> Cardinality({i \in DOMAIN seq : seq[i] = x})]

\* a response without the order of media_items, of Copies and of album members
Unordered(r) ==
    [items |-> BagOf([j \in DOMAIN r.MediaItems |->
                         [r.MediaItems[j] EXCEPT !.Copies = BagOf(@)]]),
     albums |-> [a \in DOMAIN r.Albums |->
                         [r.Albums[a] EXCEPT !.MediaItems = BagOf(@)]]]

\* the response to the page of the call with its media records permuted by f
Permuted(f) ==
    parseFromProto(resp[1].RawBytes,
                   [WirePage EXCEPT !.media_items =
                        [i \in DOMAIN WirePage.media_items |-> WirePage.media_items[f[i]]]])

\* f leaves, for every dedup_key, the same media_key on the last canonical record
KeepsLastCanonical(f) ==
    LET media == WirePage.media_items
        moved == [i \in DOMAIN media |-> media[f[i]]]
    IN  \A k \in DedupKeys :
            CanonicalAt(media, k) # {} =>
                WireKey(media[Last(CanonicalAt(media, k))])
                    = WireKey(moved[Last(CanonicalAt(moved, k))])

\* a copy with an album and a dedup_key that a canonical record of the page
\* carries is linked: its album member names a canonical record with the key
\* and every MediaItem with the key lists it
Linked(i) ==
    LET media == WirePage.media_items
        k == WireDedup(media[i])
    IN  /\ \A x \in MembersWith(resp[1], k) :
              x.MediaKey = WireKey(media[i]) =>
                  \E c \in CanonicalAt(media, k) : x.OriginalMediaKey = WireKey(media[c])
        /\ \A j \in ItemsAt(resp[1].MediaItems, k) :
              \E c \in DOMAIN resp[1].MediaItems[j].Copies :
                  resp[1].MediaItems[j].Copies[c] = WireCopy(media[i])

\* C23 (as amended): linking does not depend on wire order: a non-canonical
\* record is resolved to a canonical record of its dedup_key whether that
\* record precedes or follows it in the page, and permuting the media records
\* of a page changes media_items, Copies and the album member lists only by
\* the order of their elements, provided the permutation leaves the same
\* canonical record last among those sharing a dedup_key (always so when the
\* page carries at most one canonical record per key).
C23_LinkingIgnoresWireOrder ==
    HasPage =>
        LET media == WirePage.media_items
        IN  /\ \A k \in DedupKeys : \A i \in CopiesAt(media, k) :
                  CanonicalAt(media, k) # {} => Linked(i)
            /\ \A f \in Perms[Len(media)] :
                  KeepsLastCanonical(f) => Unordered(Permuted(f)) = Unordered(resp[1])

\* a copy that precedes its canonical record is linked to it through its album
C23_Witness ==
    /\ HasPage
    /\ \E k \in DedupKeys :
          LET media == WirePage.media_items
          IN  \E i \in CopiesAt(media, k), c \in CanonicalAt(media, k) :
                /\ i < c
                /\ \E x \in MembersWith(resp[1], k) :
                      /\ x.MediaKey = WireKey(media[i])
                      /\ x.OriginalMediaKey = WireKey(media[c])
                /\ \E f \in Perms[Len(media)] :
                      /\ KeepsLastCanonical(f)
                      /\ Permuted(f) # resp[1]

\* C23 as stated: every permutation of the media records changes the result
\* only by the order of the elements of its lists.
C23_Original ==
    HasPage =>
        \A f \in Perms[Len(WirePage.media_items)] :
            Unordered(Permuted(f)) = Unordered(resp[1])

(***************************************************************************)
(* Length-delimited fields of the generic decoder                          *)
(***************************************************************************)
LengthDelimited(w) == w.kind \in {"string", "message"}

\* the payload bytes of a length-delimited write
PayloadOf(w) == IF w.kind = "string" THEN w.value ELSE EncodeWrites(w.value)

\* printable ASCII, tab, newline, carriage return
PrintableBytes == (32..126) \cup {9, 10, 13}
Printable(bytes) == \A i \in DOMAIN bytes : bytes[i] \in PrintableBytes

\* the JSON node of the i-th write of one nesting level
NodeOf(members, ws, i) ==
    LET same == {j \in DOMAIN ws : ws[j].num = ws[i].num}
    IN  IF Cardinality(same) = 1 THEN members[ws[i].num]
        ELSE members[ws[i].num].items[Cardinality({j \in same : j <= i})]

\* C24: for every length-delimited field the generic decoder keeps the nested
\* form exactly when the payload is a non-empty sequence of complete fields
\* (its recursive decode succeeds with at least one field); otherwise the
\* field is the payload as a string when every byte is printable ASCII, tab,
\* newline or carriage return (the empty payload included), else the marker
\* bytes[n] of its length; a payload that fails to decode never makes the
\* enclosing decode fail.
C24_LengthDelimitedFallback ==
    (Decoded /\ NoStray(writes)) =>
        /\ rawJSON[1].ok
        /\ \A i \in DOMAIN writes :
              LengthDelimited(writes[i]) =>
                  LET payload == PayloadOf(writes[i])
                      node == NodeOf(rawJSON[1].json[1].members, writes, i)
                      nested == parseProtobufMessage(payload)
                  IN  /\ ReadsAsMessage(payload) <=> (nested.ok /\ DOMAIN nested.fields # {})
                      /\ IF ReadsAsMessage(payload)
                         THEN node = MarshalJSON(MapValue(nested.fields))
                         ELSE IF Printable(payload) THEN node = JSONString(payload)
                         ELSE node = JSONString(BytesMarker(Len(payload)))

\* three length-delimited fields decoded in one buffer: a payload whose
\* decode fails on a byte that is not printable, a payload that fails and is
\* printable, and an empty payload
C24_Witness ==
    /\ Decoded
    /\ rawJSON[1].ok
    /\ \E i, j, k \in DOMAIN writes :
          /\ writes[i].kind = "string" /\ ~ parseProtobufMessage(writes[i].value).ok
          /\ NodeOf(rawJSON[1].json[1].members, writes, i) = JSONString(BytesMarker(1))
          /\ writes[j].kind = "string" /\ ~ parseProtobufMessage(writes[j].value).ok
          /\ NodeOf(rawJSON[1].json[1].members, writes, j) = JSONString(writes[j].value)
          /\ writes[k].kind = "message" /\ writes[k].value = <<>>

\* every element is in b at least as often as in a
SubBag(a, b) == \A x \in DOMAIN a : x \in DOMAIN b /\ a[x] <= b[x]

\* what an album member says of its source record
MemberSource(x) == [MediaKey |-> x.MediaKey, FileName |-> x.FileName, DedupKey |-> x.DedupKey]

\* the parseable non-canonical records of a page with album_id K, in wire order
RecordsInAlbum(media, K) ==
    SelectSeq(media, LAMBDA rec : Parseable(rec) /\ WireNonCanonical(rec)
                                  /\ WireAlbum(rec) = K)

\* C26: every AlbumMediaItem in the MediaItems list of an emitted album with
\* key K comes from a parseable non-canonical media record of the page whose
\* album_id is K, and no source record gives more than one entry of the list:
\* the list, as a bag, is contained in the bag of those records.
C26_MembersBelongToTheirAlbum ==
    HasPage =>
        \A a \in DOMAIN resp[1].Albums :
            LET K == resp[1].Albums[a].AlbumKey
                members == resp[1].Albums[a].MediaItems
                sources == RecordsInAlbum(WirePage.media_items, K)
            IN  /\ K # ""
                /\ SubBag(BagOf([m \in DOMAIN members |-> MemberSource(members[m])]),
                          BagOf([i \in DOMAIN sources |->
                                    [MediaKey |-> WireKey(sources[i]),
                                     FileName |-> WireFileName(sources[i]),
                                     DedupKey |-> WireDedup(sources[i])]]))

\* two albums are emitted, each with members
C26_Witness ==
    /\ HasPage
    /\ \E a, b \in DOMAIN resp[1].Albums :
          /\ resp[1].Albums[a].AlbumKey # resp[1].Albums[b].AlbumKey
          /\ resp[1].Albums[a].MediaItems # <<>>
          /\ resp[1].Albums[b].MediaItems # <<>>

\* the parseable canonical records of a page, in wire order
CanonicalRecords(media) ==
    SelectSeq(media, LAMBDA rec : Parseable(rec) /\ ~ WireNonCanonical(rec))

\* the parseable non-canonical records with album_id K that carry a
\* dedup_key, in wire order
MemberRecords(media, K) ==
    SelectSeq(RecordsInAlbum(media, K), LAMBDA rec : WireDedup(rec) # "")

\* C28: reconciliation keeps wire order in every output list: media_items
\* lists the canonical records in page order, each Copies list and each
\* album's MediaItems list follow the wire order of their non-canonical source
\* records, albums follow the order of the album records and
\* deleted_media_keys the order of the deletion records.
C28_WireOrderKept ==
    HasPage =>
        LET media == WirePage.media_items
            r == resp[1]
            canonical == CanonicalRecords(media)
            albums == SelectSeq(WirePage.albums, LAMBDA a : a.album_key # "")
            deletions == SelectSeq(WirePage.deletions, SurfacedDeletion)
        IN  /\ [j \in DOMAIN r.MediaItems |-> r.MediaItems[j].MediaKey]
                  = [j \in DOMAIN canonical |-> WireKey(canonical[j])]
            /\ \A j \in DOMAIN r.MediaItems :
                  [c \in DOMAIN r.MediaItems[j].Copies |-> r.MediaItems[j].Copies[c].MediaKey]
                      = [c \in DOMAIN CopyRecords(media, r.MediaItems[j].DedupKey) |->
                            WireKey(CopyRecords(media, r.MediaItems[j].DedupKey)[c])]
            /\ [a \in DOMAIN r.Albums |-> r.Albums[a].AlbumKey]
                  = [a \in DOMAIN albums |-> albums[a].album_key]
            /\ \A a \in DOMAIN r.Albums :
                  [m \in DOMAIN r.Albums[a].MediaItems |-> r.Albums[a].MediaItems[m].MediaKey]
                      = [m \in DOMAIN MemberRecords(media, r.Albums[a].AlbumKey) |->
                            WireKey(MemberRecords(media, r.Albums[a].AlbumKey)[m])]
            /\ r.DeletedMediaKeys
                  = [d \in DOMAIN deletions |-> deletions[d].info[1].media[1].media_key]

\* the lists do not come out sorted: two canonical records and two deletions
\* whose keys descend
C28_Witness ==
    /\ HasPage
    /\ Len(resp[1].MediaItems) = 2
    /\ resp[1].MediaItems[1].MediaKey = "M2"
    /\ resp[1].MediaItems[2].MediaKey = "M1"
    /\ resp[1].DeletedMediaKeys = <<"D2", "D1">>

\* the requests of the three entry points, for equal pairs of tokens
EntryPointsAgree ==
    \A p \in Tokens, s \in Tokens :
        /\ buildLibraryPageRequest(p, "") = buildLibraryPageInitRequest(p)
        /\ buildLibraryPageRequest("", s) = buildLibraryStateRequest(s, "")
        /\ buildLibraryPageInitRequest("") = buildLibraryStateRequest("", "")

\* C27: the request bytes depend on the pair (stateToken, pageToken) only, not
\* on the entry point: PageContinue(p, "") is byte-identical to PageInit(p),
\* PageContinue("", s) to Sync(s) and PageInit("") to Sync(""); hence the
\* request the library command sends after dispatching on which tokens are
\* non-empty has the bytes of PageContinue called with both flags.  (A request
\* is the sequence of appends that writes it; equal sequences give equal bytes.)
C27_RequestDependsOnTokensOnly ==
    /\ EntryPointsAgree
    /\ (InFlight /\ cmd # <<>>) =>
          /\ call[1].stateToken = cmd[1].stateToken
          /\ call[1].pageToken = cmd[1].pageToken
          /\ requestBody[1] = buildLibraryPageRequest(cmd[1].pageToken, cmd[1].stateToken)

\* the command was given a page token only and called PageInit
C27_Witness ==
    /\ InFlight
    /\ cmd # <<>>
    /\ cmd[1].pageToken # ""
    /\ cmd[1].stateToken = ""
    /\ call[1].entry = "GetLibraryPageInit"
    /\ PageTokenFields(requestBody[1]) # <<>>

(***************************************************************************)
(* The callback-based Upload                                               *)
(***************************************************************************)
\* the call passed the test of g.running and set it
Accepted(u) == batch[u].pc \in {"filter", "running", "stopped", "done"}

\* the call was accepted and has not reached its g.running = false
InProgress(u) == batch[u].pc \in {"filter", "running", "stopped"}

\* the callback of the call has received uploadStop
Stopped(u) == "uploadStop" \in Range(batch[u].events)

\* uploadStop is the last event of a batch, comes once, and comes when no
\* result is pending and no worker of the batch is left
StopsOnceAfterResults ==
    \A u \in Uploads :
        /\ Cardinality({i \in DOMAIN batch[u].events : batch[u].events[i] = "uploadStop"}) <= 1
        /\ Stopped(u) =>
             /\ batch[u].events[Len(batch[u].events)] = "uploadStop"
             /\ batch[u].results = 0
             /\ batch[u].workers = 0

\* every accepted call gets its uploadStop
EveryBatchStops == \A u \in Uploads : [](Accepted(u) => <>Stopped(u))

\* C25: every accepted Upload call emits uploadStop exactly once, after
\* every FileStatus event of its batch, in every outcome, and IsRunning()
\* is true from the acceptance until then.
C25_Original ==
    /\ [](StopsOnceAfterResults)
    /\ [](\A u \in Uploads : (Accepted(u) /\ ~Stopped(u)) => running)
    /\ EveryBatchStops

\* C29: at most one batch is in progress at any time; a call made while a
\* batch is running starts no workers, emits no events and does not replace
\* the cancel channel of the running batch.
C29_Original ==
    /\ [](Cardinality({u \in Uploads : InProgress(u)}) <= 1)
    /\ [](\A u \in Uploads : batch[u].pc = "rejected" =>
              batch[u].events = <<>> /\ batch[u].workers = 0)
    /\ [][\A u \in Uploads : (InProgress(u) /\ InProgress(u)') =>
              cancel' \in {cancel, 0}]_vars

(***************************************************************************)
(* BearerToken                                                             *)
(***************************************************************************)
\* the callers whose refresh request is on its way
Refreshing == {c \in Callers : bearer[c].pc = "refresh"}

\* the call of c returns the error of a failed refresh in this step
RefreshFails(c) ==
    /\ bearer[c].pc = "refresh"
    /\ bearer'[c].pc = "returned"

\* C30: under concurrent callers at most one refresh request is in flight;
\* a refresh is attempted only when the cached expiry is not in the future;
\* a failed refresh leaves the cached token and expiry unchanged; and
\* BearerToken never returns an empty token with a nil error.
C30_RefreshIsSerializedAndSafe ==
    /\ [](Cardinality(Refreshing) <= 1)
    /\ [](\A c \in Refreshing :
              /\ ParseInt(authTokenCache.Expiry).err = ""
              /\ ParseInt(authTokenCache.Expiry).v <= now)
    /\ [][\A c \in Callers : RefreshFails(c) =>
              /\ bearer'[c].err # ""
              /\ authTokenCache' = authTokenCache]_vars
    /\ [](\A c \in Callers :
              (bearer[c].pc = "returned" /\ bearer[c].err = "") => bearer[c].token # "")

\* a refresh failed and left a cached token behind, which is expired, and
\* the next caller's refresh is on its way
C30_Witness ==
    \E c, d \in Callers :
        /\ bearer[c].pc = "returned"
        /\ bearer[c].err = "failed to get auth token"
        /\ authTokenCache.Auth # ""
        /\ authTokenCache.Expiry # <<48>>
        /\ d \in Refreshing

====
